---- MODULE Spec2Model ----
(***************************************************************************)
(* Company Atlas ingestion engine: the per-record enrichment merge, the    *)
(* batch orchestrator with its rate-limited fetch client, the entry points *)
(* that own a scraper, and the fallback dataset resolver.                  *)
(*                                                                         *)
(* Python values are encoded as strings so that every field of a record    *)
(* can be compared with every other: None, NaN, the empty string, the      *)
(* string 'None', the number 0 and ordinary values are distinct strings.   *)
(***************************************************************************)
EXTENDS Integers, Sequences, FiniteSets, TLC

VARIABLES
    \* scrape_company_info applied to one record
    m_pc, m_name, m_existing, m_lookup, m_now, m_result,
    \* enrich_companies_async on one WebScraper
    companies, max_concurrent, permits, client, clock,
    main_pc, i, task, batch_results, results,
    \* an entry point that owns a WebScraper
    e_entry, e_flag, e_pc, e_step, e_pending, e_exc, e_scraper, e_fetches, e_how,
    \* one call of a fallback dataset resolver
    r_func, r_pc, r_idx, workdir, dir_exists, r_log, r_table, r_exc,
    \* one call of a schema normalizer
    n_func, n_pc, n_df, n_source, n_out,
    \* one call of a function that partitions a table and enriches a part
    p_func, p_flag, p_pc, p_df, p_sent, p_rest, p_list, p_fetched, p_out,
    \* one call of an ingest_all that chains download, normalization, enrichment
    g_entry, g_flag, g_pc, g_src, g_df, g_results, g_log, g_how, g_exc,
    \* one call of parse_wikipedia_infobox
    x_soup, x_pc, x_out,
    \* fetch_url and close calls of several tasks on one WebScraper, and the
    \* value main_ingestion.main saves as the global-companies table
    f_max, f_permits, f_client, f_open, f_made, f_call, f_calls, f_overlap,
    g_saved

mergeVars == <<m_pc, m_name, m_existing, m_lookup, m_now, m_result>>

orchVars ==
    <<companies, max_concurrent, permits, client, clock,
      main_pc, i, task, batch_results, results>>

entryVars ==
    <<e_entry, e_flag, e_pc, e_step, e_pending, e_exc, e_scraper, e_fetches, e_how>>

resolveVars == <<r_func, r_pc, r_idx, workdir, dir_exists, r_log, r_table, r_exc>>

\* The variables an action of one part leaves alone: those of the others.
normVars == <<n_func, n_pc, n_df, n_source, n_out>>

partVars == <<p_func, p_flag, p_pc, p_df, p_sent, p_rest, p_list, p_fetched, p_out>>

parseVars == <<x_soup, x_pc, x_out>>

ingestVars ==
    <<g_entry, g_flag, g_pc, g_src, g_df, g_results, g_log, g_how, g_exc, g_saved>>

fetchVars == <<f_max, f_permits, f_client, f_open, f_made, f_call, f_calls, f_overlap>>

notOrch ==
    <<mergeVars, entryVars, resolveVars, normVars, partVars, ingestVars, parseVars,
      fetchVars>>

notMerge ==
    <<orchVars, entryVars, resolveVars, normVars, partVars, ingestVars, parseVars,
      fetchVars>>

notResolve ==
    <<mergeVars, orchVars, entryVars, normVars, partVars, ingestVars, parseVars,
      fetchVars>>

notNorm ==
    <<mergeVars, orchVars, entryVars, resolveVars, partVars, ingestVars, parseVars,
      fetchVars>>

notPart ==
    <<mergeVars, orchVars, entryVars, resolveVars, normVars, ingestVars, parseVars,
      fetchVars>>

\* An ingest_all acts on its own state and on the client of its scraper.
notIngest ==
    <<mergeVars, entryVars, resolveVars, normVars, partVars, parseVars, fetchVars,
      companies, max_concurrent, permits, clock, main_pc, i, task, batch_results,
      results>>

notParse ==
    <<mergeVars, orchVars, entryVars, resolveVars, normVars, partVars, ingestVars,
      fetchVars>>

notFetch ==
    <<mergeVars, orchVars, entryVars, resolveVars, normVars, partVars, ingestVars,
      parseVars>>

\* An entry point acts on the scraper's client only.
notEntry ==
    <<mergeVars, resolveVars, normVars, partVars, ingestVars, parseVars, fetchVars,
      companies, max_concurrent, permits, clock, main_pc, i, task, batch_results,
      results>>

vars ==
    <<m_pc, m_name, m_existing, m_lookup, m_now, m_result,
      companies, max_concurrent, permits, client, clock,
      main_pc, i, task, batch_results, results,
      e_entry, e_flag, e_pc, e_step, e_pending, e_exc, e_scraper, e_fetches, e_how,
      r_func, r_pc, r_idx, workdir, dir_exists, r_log, r_table, r_exc,
      n_func, n_pc, n_df, n_source, n_out,
      p_func, p_flag, p_pc, p_df, p_sent, p_rest, p_list, p_fetched, p_out,
      g_entry, g_flag, g_pc, g_src, g_df, g_results, g_log, g_how, g_exc, g_saved,
      x_soup, x_pc, x_out,
      f_max, f_permits, f_client, f_open, f_made, f_call, f_calls, f_overlap>>

(***************************************************************************)
(* Bounds of the model.                                                    *)
(***************************************************************************)
\* Largest value of the logical clock read by datetime.utcnow().
MaxClock == 2

(***************************************************************************)
(* Python values.                                                          *)
(***************************************************************************)
PyNone == "None"
NaN == "NaN"
EmptyStr == "''"
StrNone == "'None'"
Zero == "0"

\* bool(v): None, '' and 0 are falsy; NaN and every non-empty string are truthy.
Truthy(v) == v \notin {PyNone, EmptyStr, Zero}

\* pandas isna / isnull: None and NaN.
IsNull(v) == v \in {PyNone, NaN}

\* dict.get(k): the value, or None when the key is absent.
Get(d, k) == IF k \in DOMAIN d THEN d[k] ELSE PyNone

SeqsUpTo(S, n) == UNION {[1..k -> S] : k \in 0..n}

\* The set of the elements of a sequence.
Elems(seq) == {seq[k] : k \in DOMAIN seq}

\* datetime.utcnow().isoformat() of clock value n.
Iso(n) == "t" \o ToString(n)

DomainFields ==
    {"company_name", "domain", "industry", "country",
     "employee_count", "revenue", "founded_year"}

Fields == DomainFields \cup {"source_system", "last_updated_at"}

(***************************************************************************)
(* WebScraper.scrape_company_info: the per-record merge.                   *)
(* A lookup is [kind |-> "data", data |-> partial record] when             *)
(* scrape_wikipedia returned (an empty partial for a failed fetch), and    *)
(* [kind |-> "raise"] when scrape_wikipedia raised.                        *)
(***************************************************************************)
\* Mutant: result.update(wiki_data), every item is written.
FillableAlways(result, key, value) == TRUE

\* if not result.get(key) and value
Fillable(result, key, value) == ~Truthy(Get(result, key)) /\ Truthy(value)

\* for key, value in wiki_data.items(): if ...: result[key] = value
MergeWiki(result, wiki) ==
    LET filled == {k \in DOMAIN wiki : Fillable(result, k, wiki[k])}
    IN  [k \in (DOMAIN result) \cup filled |->
            IF k \in filled THEN wiki[k] ELSE result[k]]

\* Exception classes the model raises; all are subclasses of Exception.
ExceptionClasses ==
    {"TypeError", "ValueError", "TimeoutException", "ConnectError", "RuntimeError"}

\* Mutant: the handlers name httpx.HTTPStatusError only.
ExceptHTTPStatusErrorOnly(exc) == exc = "HTTPStatusError"

\* An `except Exception` clause: what it catches.
ExceptException(exc) == exc \in ExceptionClasses

\* The try block: the merge runs only when the lookup did not raise.
TryWikipedia(result, lookup) ==
    IF lookup.kind = "data" THEN MergeWiki(result, lookup.data) ELSE result

\* result['last_updated_at'] = datetime.utcnow().isoformat()
StampLastUpdated(result, now) ==
    [k \in (DOMAIN result) \cup {"last_updated_at"} |->
        IF k = "last_updated_at" THEN Iso(now) ELSE result[k]]

\* The "Set defaults" block.
SetDefaults(result, company_name, now) ==
    LET named == [k \in (DOMAIN result) \cup {"company_name", "source_system"} |->
                    CASE k = "company_name" ->
                            IF Truthy(Get(result, "company_name"))
                            THEN result["company_name"] ELSE company_name
                      [] k = "source_system" ->
                            IF Truthy(Get(result, "source_system"))
                            THEN result["source_system"] ELSE "'web_scraper'"
                      [] OTHER -> result[k]]
    IN  StampLastUpdated(named, now)

\* The record scrape_company_info returns, or the exception its
\* `except Exception` clause lets through.
ScrapeCompanyInfo(company_name, existing_data, lookup, now) ==
    IF lookup.kind = "raise" /\ ~ExceptException(lookup.exc)
    THEN [kind |-> "raise", exc |-> lookup.exc]
    ELSE [kind |-> "return",
          value |-> SetDefaults(TryWikipedia(existing_data, lookup), company_name, now)]

(***************************************************************************)
(* Inputs of the merge: canonical records as the normalizers hand them to  *)
(* enrichment (DataFrame.to_dict('records')), and the partial records the  *)
(* extractor can return.                                                   *)
(***************************************************************************)
Absent == "<absent>"

\* The time normalization stamped the records.
NormTime == 0

\* Every part of the model but the given one is at rest: no call of it
\* is followed.
IdleExcept(part) ==
    /\ IF part = "merge" THEN TRUE
       ELSE /\ m_pc = "off"
            /\ m_name = PyNone
            /\ m_existing = <<>>
            /\ m_lookup = [kind |-> "none"]
            /\ m_now = NormTime
            /\ m_result = [kind |-> "pending"]
    /\ IF part = "orch" THEN TRUE
       ELSE /\ companies = <<>>
            /\ max_concurrent = 1
            /\ permits = 1
            /\ client = "none"
            /\ clock = NormTime
            /\ main_pc = "off"
            /\ i = 0
            /\ task = <<>>
            /\ batch_results = <<>>
            /\ results = <<>>
    /\ IF part = "entry" THEN TRUE
       ELSE /\ e_entry = "none"
            /\ e_flag = FALSE
            /\ e_pc = "off"
            /\ e_step = 0
            /\ e_pending = 0
            /\ e_exc = "none"
            /\ e_scraper = FALSE
            /\ e_fetches = 0
            /\ e_how = "running"
    /\ IF part = "resolve" THEN TRUE
       ELSE /\ r_func = "none"
            /\ r_pc = "off"
            /\ r_idx = 0
            /\ workdir = {}
            /\ dir_exists = FALSE
            /\ r_log = <<>>
            /\ r_table = {}
            /\ r_exc = "none"
    /\ IF part = "norm" THEN TRUE
       ELSE /\ n_func = "none"
            /\ n_pc = "off"
            /\ n_df = [nrows |-> 0, cols |-> <<>>]
            /\ n_source = "none"
            /\ n_out = [kind |-> "pending"]
    /\ IF part = "part" THEN TRUE
       ELSE /\ p_func = "none"
            /\ p_flag = FALSE
            /\ p_pc = "off"
            /\ p_df = <<>>
            /\ p_sent = <<>>
            /\ p_rest = <<>>
            /\ p_list = <<>>
            /\ p_fetched = {}
            /\ p_out = <<>>
    /\ IF part = "ingest" THEN TRUE
       ELSE /\ g_entry = "none"
            /\ g_flag = FALSE
            /\ g_pc = "off"
            /\ g_src = 0
            /\ g_df = <<>>
            /\ g_results = <<>>
            /\ g_log = <<>>
            /\ g_how = "none"
            /\ g_exc = "none"
            /\ g_saved = [kind |-> "none"]
    /\ IF part = "parse" THEN TRUE
       ELSE /\ x_soup = <<>>
            /\ x_pc = "off"
            /\ x_out = <<>>
    /\ IF part = "fetch" THEN TRUE
       ELSE /\ f_max = 1
            /\ f_permits = 1
            /\ f_client = 0
            /\ f_open = {}
            /\ f_made = 0
            /\ f_call = <<>>
            /\ f_calls = 0
            /\ f_overlap = FALSE

RecordValues ==
    [company_name    : {"'Acme'"},
     domain          : {PyNone, "'none'", "'acme.com'"},
     industry        : {PyNone, EmptyStr, "'Retail'"},
     country         : {"'USA'"},
     employee_count  : {NaN, Zero, "5000"},
     revenue         : {NaN, "9.9"},
     founded_year    : {PyNone, NaN, StrNone, "1998"},
     source_system   : {"'fortune1000'"},
     last_updated_at : {Iso(NormTime)}]

PartialValues ==
    [domain          : {Absent, "'acme.org'"},
     industry        : {Absent, "'Software'", EmptyStr},
     founded_year    : {Absent, PyNone, "1976"},
     employee_count  : {Absent, "120", Zero},
     revenue         : {Absent, "2300000000.0"},
     country         : {Absent, "'UK'"}]

Lookups ==
    LET \* a dict from a total function whose Absent entries are missing keys
        Dict(g) == [k \in {f \in DOMAIN g : g[f] # Absent} |-> g[k]]
    IN  {[kind |-> "data", data |-> Dict(g)] : g \in PartialValues}
        \cup {[kind |-> "raise", exc |-> "ValueError"]}

(***************************************************************************)
(* The merge applied to one record.                                        *)
(***************************************************************************)
MergeInit ==
    /\ m_pc = "call"
    /\ m_existing \in RecordValues
    /\ m_name = m_existing["company_name"]
    /\ m_lookup \in Lookups
    /\ m_now \in (NormTime + 1)..MaxClock
    /\ m_result = [kind |-> "pending"]
    /\ IdleExcept("merge")

MergeReturn ==
    /\ m_pc = "call"
    /\ m_result' = ScrapeCompanyInfo(m_name, m_existing, m_lookup, m_now)
    /\ m_pc' = "returned"
    /\ UNCHANGED <<m_name, m_existing, m_lookup, m_now>>
    /\ UNCHANGED notMerge

SpecMerge == MergeInit /\ [][MergeReturn]_vars

(***************************************************************************)
(* WebScraper: the gate, the HTTP client and fetch_url.                    *)
(***************************************************************************)
\* Records of one enrich_companies_async call.
MaxRecords == 3

\* batch_size of enrich_companies_async (30 in the source), scaled down.
BatchSize == 2

\* Largest max_concurrent a WebScraper is constructed with (50 and 20 in
\* the source), scaled down; every gate size 1..MaxGate is explored.
MaxGate == 2

\* Mutant: acquire never waits.
CanAcquireAlways(value) == TRUE

\* trio.Semaphore.acquire proceeds only while a permit is free.
CanAcquire(value) == value > 0

\* _get_http_client: the client after the call (created when there is none).
GetHttpClient(c) == IF c = "none" THEN "open" ELSE c

(***************************************************************************)
(* WebScraper.parse_wikipedia_infobox.  A text is the sequence of its      *)
(* characters; the document BeautifulSoup builds is reduced to what the    *)
(* function reads: whether there is a table of class infobox and, for each *)
(* row with a th and a td, their texts and the href of the first link of   *)
(* the td.                                                                 *)
(***************************************************************************)
\* Rows of an info panel.
MaxPanelRows == 2

\* str.lower()
LowerText(t) ==
    LET LowerCase(ch) ==
          CASE ch = "A" -> "a"
               [] ch = "B" -> "b"
               [] ch = "C" -> "c"
               [] ch = "D" -> "d"
               [] ch = "E" -> "e"
               [] ch = "F" -> "f"
               [] ch = "G" -> "g"
               [] ch = "H" -> "h"
               [] ch = "I" -> "i"
               [] ch = "J" -> "j"
               [] ch = "K" -> "k"
               [] ch = "L" -> "l"
               [] ch = "M" -> "m"
               [] ch = "N" -> "n"
               [] ch = "O" -> "o"
               [] ch = "P" -> "p"
               [] ch = "Q" -> "q"
               [] ch = "R" -> "r"
               [] ch = "S" -> "s"
               [] ch = "T" -> "t"
               [] ch = "U" -> "u"
               [] ch = "V" -> "v"
               [] ch = "W" -> "w"
               [] ch = "X" -> "x"
               [] ch = "Y" -> "y"
               [] ch = "Z" -> "z"
               [] OTHER -> ch
    IN  [k \in DOMAIN t |-> LowerCase(t[k])]

\* t[a-1:b]: the characters of positions a to b that exist.
Slice(t, a, b) ==
    LET last == IF b < Len(t) THEN b ELSE Len(t)
    IN  IF a > last THEN <<>> ELSE [k \in 1..(last - a + 1) |-> t[a + k - 1]]

\* sub in t
Contains(t, sub) ==
    \E k \in 1..(Len(t) - Len(sub) + 1) : SubSeq(t, k, k + Len(sub) - 1) = sub

\* The text as one Python string.
RECURSIVE Join(_)
Join(t) == IF t = <<>> THEN "" ELSE Head(t) \o Join(Tail(t))

\* re.search(r'([S]+)', t): the leftmost longest run of characters of S,
\* or <<>> when there is no match.
FirstRun(t, S) ==
    IF \A k \in DOMAIN t : t[k] \notin S THEN <<>>
    ELSE LET first == CHOOSE k \in DOMAIN t :
                         t[k] \in S /\ \A j \in 1..(k - 1) : t[j] \notin S
             last == CHOOSE k \in first..Len(t) :
                         /\ \A j \in first..k : t[j] \in S
                         /\ (k = Len(t) \/ t[k + 1] \notin S)
         IN  SubSeq(t, first, last)

\* int(t) of a run of digits, as a value: leading zeros do not count.
IntOf(t) ==
    LET nonzero == {k \in DOMAIN t : t[k] # "0"}
    IN  IF nonzero = {} THEN Zero
        ELSE Join(Slice(t, CHOOSE a \in nonzero : \A b \in nonzero : a <= b, Len(t)))

\* float(t) * 10^exponent for a text of digits and dots: a ValueError
\* unless t has at most one dot and at least one digit; else the value,
\* written as the decimal without the zeros that do not count, followed by
\* the exponent; 0.0 is the falsy Zero.
Float(t, exponent) ==
    LET dots == {k \in DOMAIN t : t[k] = "."}
        dot == IF dots = {} THEN Len(t) + 1 ELSE CHOOSE k \in dots : TRUE
        whole == Slice(t, 1, dot - 1)
        fraction == Slice(t, dot + 1, Len(t))
        counting == {k \in DOMAIN fraction : fraction[k] # "0"}
        decimals == IF counting = {} THEN <<>>
                    ELSE Slice(fraction, 1, CHOOSE a \in counting : \A b \in counting : a >= b)
    IN  IF Cardinality(dots) > 1 \/ Len(t) = Cardinality(dots)
        THEN [kind |-> "raise", exc |-> "ValueError"]
        ELSE [kind |-> "value",
              value |-> IF IntOf(whole) = Zero /\ decimals = <<>> THEN Zero
                        ELSE IntOf(whole)
                               \o (IF decimals = <<>> THEN "" ELSE "." \o Join(decimals))
                               \o exponent]

\* data[key] = value
Put(data, key, value) ==
    [k \in (DOMAIN data) \cup {key} |-> IF k = key THEN value ELSE data[k]]

\* The body of the first loop for one row: the partial record afterwards,
\* or the ValueError of a float() that is not inside the try block.  A row
\* is the text of its th, the text of its td and the href of the first
\* link of the td (<<>> when the td has no link).
ParseRow(row, data) ==
    LET digits == {"0", "1", "2", "3", "4", "5", "6", "7", "8", "9"}
        key == LowerText(row.th)
        value == row.td
        url == row.href
        \* re.search(r'https?://(?:www\.)?([^/]+)', url).group(1), or <<>>
        after(k) ==
            IF Slice(url, k, k + 6) = <<"h", "t", "t", "p", ":", "/", "/">> THEN k + 7
            ELSE IF Slice(url, k, k + 7) = <<"h", "t", "t", "p", "s", ":", "/", "/">> THEN k + 8
            ELSE 0
        matches == {k \in DOMAIN url :
                      after(k) # 0 /\ after(k) <= Len(url) /\ url[after(k)] # "/"}
        rest == Slice(url, after(CHOOSE a \in matches : \A b \in matches : a <= b), Len(url))
        www == Slice(rest, 1, 4) = <<"w", "w", "w", ".">> /\ Len(rest) > 4 /\ rest[5] # "/"
        host == IF www THEN Slice(rest, 5, Len(rest)) ELSE rest
        domain == IF matches = {} THEN <<>> ELSE FirstRun(host, Elems(host) \ {"/"})
        linked == IF domain # <<>>
                  THEN Put(data, "domain", "'" \o Join(LowerText(domain)) \o "'")
                  ELSE data
        \* re.search(r'(\d{4})', value)
        years == {k \in 1..(Len(value) - 3) : \A j \in k..(k + 3) : value[j] \in digits}
        year_match == SubSeq(value, CHOOSE a \in years : \A b \in years : a <= b,
                             (CHOOSE a \in years : \A b \in years : a <= b) + 3)
        \* re.search(r'([\d,]+)', value.replace(',', ''))
        num_match == FirstRun(SelectSeq(value, LAMBDA c : c # ","), digits \cup {","})
        \* re.sub(r'[^\d.,]', '', value)
        revenue_text == SelectSeq(value, LAMBDA c : c \in digits \cup {".", ","})
        revenue_str == SelectSeq(FirstRun(revenue_text, digits \cup {".", ","}),
                                 LAMBDA c : c # ",")
        stored(number) ==
            IF number.kind = "raise" THEN number
            ELSE [kind |-> "data", data |-> Put(data, "revenue", number.value)]
    IN  IF Contains(key, <<"w", "e", "b", "s", "i", "t", "e">>) \/ Contains(key, <<"w", "e", "b">>)
        THEN [kind |-> "data",
              data |-> IF ~Truthy(Get(linked, "domain"))
                       THEN Put(linked, "domain", "'" \o Join(LowerText(value)) \o "'")
                       ELSE linked]
        ELSE IF Contains(key, <<"i", "n", "d", "u", "s", "t", "r", "y">>) \/ Contains(key, <<"s", "e", "c", "t", "o", "r">>)
        THEN [kind |-> "data", data |-> Put(data, "industry", "'" \o Join(value) \o "'")]
        ELSE IF Contains(key, <<"f", "o", "u", "n", "d", "e", "d">>) \/ Contains(key, <<"f", "o", "u", "n", "d", "a", "t", "i", "o", "n">>)
        THEN [kind |-> "data",
              data |-> IF years # {}
                       THEN Put(data, "founded_year", IntOf(year_match))
                       ELSE Put(data, "founded_year", PyNone)]
        ELSE IF Contains(key, <<"e", "m", "p", "l", "o", "y", "e", "e", "s">>) \/ Contains(key, <<"w", "o", "r", "k", "f", "o", "r", "c", "e">>)
        THEN [kind |-> "data",
              data |-> IF num_match # <<>>
                       THEN Put(data, "employee_count",
                                IntOf(SelectSeq(num_match, LAMBDA c : c # ",")))
                       ELSE data]
        ELSE IF Contains(key, <<"r", "e", "v", "e", "n", "u", "e">>) /\ revenue_text # <<>>
        THEN IF Contains(LowerText(value), <<"b", "i", "l", "l", "i", "o", "n">>) \/ Contains(LowerText(value), <<"b", "n">>)
             THEN stored(Float(revenue_str, "e9"))
             ELSE IF \/ Contains(LowerText(value), <<"m", "i", "l", "l", "i", "o", "n">>)
                     \/ Contains(LowerText(value), <<"m", "n">>)
                     \/ Contains(LowerText(value), <<"m">>)
             THEN stored(Float(revenue_str, "e6"))
             \* try: data['revenue'] = float(revenue_str) except: pass
             ELSE IF Float(revenue_str, "").kind = "raise"
             THEN [kind |-> "data", data |-> data]
             ELSE stored(Float(revenue_str, ""))
        ELSE [kind |-> "data", data |-> data]

\* The first loop: row after row, until one raises.
RECURSIVE ParseRows(_, _)
ParseRows(rows, data) ==
    IF rows = <<>> THEN [kind |-> "data", data |-> data]
    ELSE IF ParseRow(Head(rows), data).kind = "raise"
    THEN ParseRow(Head(rows), data)
    ELSE ParseRows(Tail(rows), ParseRow(Head(rows), data).data)

\* The second loop: a headquarters or location row stores the first
\* country of the list that its text contains.
RECURSIVE CountryRows(_, _)
CountryRows(rows, data) ==
    LET countries ==
            <<[text |-> <<"U", "S", "A">>, as |-> "'USA'"],
              [text |-> <<"U", "n", "i", "t", "e", "d", " ", "S", "t", "a", "t", "e", "s">>, as |-> "'USA'"],
              [text |-> <<"U", "S">>, as |-> "'USA'"],
              [text |-> <<"U", "K">>, as |-> "'UK'"],
              [text |-> <<"U", "n", "i", "t", "e", "d", " ", "K", "i", "n", "g", "d", "o", "m">>, as |-> "'UK'"],
              [text |-> <<"C", "a", "n", "a", "d", "a">>, as |-> "'Canada'"],
              [text |-> <<"G", "e", "r", "m", "a", "n", "y">>, as |-> "'Germany'"],
              [text |-> <<"F", "r", "a", "n", "c", "e">>, as |-> "'France'"],
              [text |-> <<"J", "a", "p", "a", "n">>, as |-> "'Japan'"],
              [text |-> <<"C", "h", "i", "n", "a">>, as |-> "'China'"],
              [text |-> <<"I", "n", "d", "i", "a">>, as |-> "'India'"],
              [text |-> <<"A", "u", "s", "t", "r", "a", "l", "i", "a">>, as |-> "'Australia'"]>>
        key == LowerText(Head(rows).th)
        found == {k \in DOMAIN countries : Contains(Head(rows).td, countries[k].text)}
    IN  IF rows = <<>> THEN data
        ELSE IF (Contains(key, <<"h", "e", "a", "d", "q", "u", "a", "r", "t", "e", "r", "s">>) \/ Contains(key, <<"l", "o", "c", "a", "t", "i", "o", "n">>)) /\ found # {}
        THEN CountryRows(Tail(rows),
                         Put(data, "country",
                             countries[CHOOSE a \in found : \A b \in found : a <= b].as))
        ELSE CountryRows(Tail(rows), data)

\* parse_wikipedia_infobox on the document (whether it has an infobox
\* table, and the rows of the table): the partial record it returns, or
\* the exception that leaves it.
InfoboxData(soup) ==
    IF ~soup.panel THEN [kind |-> "data", data |-> <<>>]
    ELSE IF ParseRows(soup.rows, <<>>).kind = "raise"
    THEN ParseRows(soup.rows, <<>>)
    ELSE [kind |-> "data",
          data |-> CountryRows(soup.rows, ParseRows(soup.rows, <<>>).data)]

\* The rows the panels of the model are made of.
PanelRows ==
    [industry |->
        [th |-> <<"I", "n", "d", "u", "s", "t", "r", "y">>,
         td |-> <<"S", "o", "f", "t", "w", "a", "r", "e">>,
         href |-> <<>>],
     founded |->
        [th |-> <<"F", "o", "u", "n", "d", "e", "d">>,
         td |-> <<"A", "p", "r", "i", "l", " ", "1", "9", "7", "6">>,
         href |-> <<>>],
     founded_unknown |->
        [th |-> <<"F", "o", "u", "n", "d", "e", "d">>,
         td |-> <<"n", "/", "a">>,
         href |-> <<>>],
     founded_early |->
        [th |-> <<"F", "o", "u", "n", "d", "e", "d">>,
         td |-> <<"1", "5", "2", "6">>,
         href |-> <<>>],
     employees |->
        [th |-> <<"E", "m", "p", "l", "o", "y", "e", "e", "s">>,
         td |-> <<"1", ",", "2", "0", "0">>,
         href |-> <<>>],
     revenue_billion |->
        [th |-> <<"R", "e", "v", "e", "n", "u", "e">>,
         td |-> <<"$", "2", ".", "3", " ", "b", "i", "l", "l", "i", "o", "n">>,
         href |-> <<>>],
     revenue_dotted_billion |->
        [th |-> <<"R", "e", "v", "e", "n", "u", "e">>,
         td |-> <<"1", ".", "2", ".", "3", " ", "b", "i", "l", "l", "i", "o", "n">>,
         href |-> <<>>],
     revenue_dotted |->
        [th |-> <<"R", "e", "v", "e", "n", "u", "e">>,
         td |-> <<"1", ".", "2", ".", "3">>,
         href |-> <<>>],
     revenue_plain |->
        [th |-> <<"R", "e", "v", "e", "n", "u", "e">>,
         td |-> <<"2", ",", "3", "0", "0">>,
         href |-> <<>>],
     revenue_unknown |->
        [th |-> <<"R", "e", "v", "e", "n", "u", "e">>,
         td |-> <<"N", "/", "A">>,
         href |-> <<>>],
     revenue_dated |->
        [th |-> <<"R", "e", "v", "e", "n", "u", "e">>,
         td |-> <<"$", "2", ".", "3", " ", "b", "i", "l", "l", "i", "o", "n", " ",
                  "(", "2", "0", "2", "3", ")">>,
         href |-> <<>>],
     revenue_estimate |->
        [th |-> <<"R", "e", "v", "e", "n", "u", "e">>,
         td |-> <<"5", "0", "0", "0", " ", "(", "e", "s", "t", "i", "m", "a", "t", "e", ")">>,
         href |-> <<>>],
     revenue_million |->
        [th |-> <<"R", "e", "v", "e", "n", "u", "e">>,
         td |-> <<"4", ".", "5", " ", "m", "i", "l", "l", "i", "o", "n">>,
         href |-> <<>>],
     headquarters |->
        [th |-> <<"H", "e", "a", "d", "q", "u", "a", "r", "t", "e", "r", "s">>,
         td |-> <<"L", "o", "n", "d", "o", "n", ",", " ", "U", "K">>,
         href |-> <<>>],
     website |->
        [th |-> <<"W", "e", "b", "s", "i", "t", "e">>,
         td |-> <<"a", "c", "m", "e", ".", "c", "o", "m">>,
         href |-> <<"h", "t", "t", "p", "s", ":", "/", "/", "w", "w", "w", ".", "A", "c", "m", "e", ".", "c", "o", "m", "/", "a", "b", "o", "u", "t">>]]

ParseInit ==
    /\ x_soup \in
         {[panel |-> FALSE, rows |-> <<>>]}
            \cup {[panel |-> TRUE, rows |-> rows] :
                    rows \in SeqsUpTo({PanelRows[k] : k \in DOMAIN PanelRows}, MaxPanelRows)}
    /\ x_pc = "call"
    /\ x_out = [kind |-> "pending"]
    /\ IdleExcept("parse")

\* One call of parse_wikipedia_infobox.
ParseReturn ==
    /\ x_pc = "call"
    /\ x_out' = InfoboxData(x_soup)
    /\ x_pc' = IF InfoboxData(x_soup).kind = "raise" THEN "raised" ELSE "returned"
    /\ UNCHANGED x_soup
    /\ UNCHANGED notParse

FetchOutcomes ==
    {[kind |-> "response", status |-> 200, text |-> pg] :
        pg \in {"<infobox: founded 1976, industry Software>",
                "<infobox: revenue 1.2.3 billion>"}}
      \cup {[kind |-> "response", status |-> 404, text |-> "<not found>"]}
      \cup {[kind |-> "exception", exc |-> "TimeoutException"]}

\* Mutant: the status of the response is not looked at.
FetchUrlAnyStatus(outcome) ==
    IF outcome.kind = "response"
    THEN [kind |-> "return", value |-> outcome.text]
    ELSE [kind |-> "return", value |-> PyNone]

\* fetch_url from the answer of client.get: the value it returns, or
\* the exception that leaves it.
FetchUrl(outcome) ==
    IF outcome.kind = "response"
    THEN IF outcome.status = 200
         THEN [kind |-> "return", value |-> outcome.text]
         ELSE [kind |-> "return", value |-> PyNone]
    ELSE IF ExceptException(outcome.exc)
         THEN [kind |-> "return", value |-> PyNone]
         ELSE [kind |-> "raise", exc |-> outcome.exc]

\* parse_wikipedia_infobox on the pages of the model, which hold the rows
\* PanelRows.founded and PanelRows.industry, and the row
\* PanelRows.revenue_dotted_billion: the partial record InfoboxData gives
\* for them, or its ValueError.
ParseWikipediaInfobox(html) ==
    CASE html = "<infobox: founded 1976, industry Software>" ->
            [kind |-> "data",
             data |-> [founded_year |-> "1976", industry |-> "'Software'"]]
      [] html = "<infobox: revenue 1.2.3 billion>" ->
            [kind |-> "raise", exc |-> "ValueError"]
      [] OTHER -> [kind |-> "data", data |-> <<>>]

\* scrape_wikipedia after fetch_url came back: {} for no html, else the parse.
ScrapeWikipedia(fetched) ==
    IF fetched.kind = "raise" THEN fetched
    ELSE IF ~Truthy(fetched.value) THEN [kind |-> "data", data |-> <<>>]
    ELSE ParseWikipediaInfobox(fetched.value)

\* company.get('company_name') or company.get('name') or ''
CompanyName(company) ==
    IF Truthy(Get(company, "company_name")) THEN company["company_name"]
    ELSE IF Truthy(Get(company, "name")) THEN company["name"]
    ELSE EmptyStr

\* enrich_one once the lookup is known: the record it appends to the
\* batch's result list, or the exception that leaves the task.
EnrichOne(company, lookup, now) ==
    LET enriched == ScrapeCompanyInfo(CompanyName(company), company, lookup, now)
    IN  IF enriched.kind = "return"
        THEN [kind |-> "append", rec |-> enriched.value]
        ELSE IF ExceptException(enriched.exc)
             THEN [kind |-> "append", rec |-> company]
             ELSE [kind |-> "raise", exc |-> enriched.exc]

(***************************************************************************)
(* The records given to enrich_companies_async.                            *)
(***************************************************************************)
Company(name, year, employees) ==
    [company_name    |-> name,
     domain          |-> "'acme.com'",
     industry        |-> PyNone,
     country         |-> "'USA'",
     employee_count  |-> employees,
     revenue         |-> NaN,
     founded_year    |-> year,
     source_system   |-> "'fortune1000'",
     last_updated_at |-> Iso(NormTime)]

CompanySet ==
    {Company("'Acme'", PyNone, Zero),
     Company(NaN, PyNone, "5000"),
     Company(PyNone, PyNone, NaN)}

Indices == 1..Len(companies)

\* Mutant: the slice stops one record short.
BatchOfDropsLast(start) == {j \in Indices : start < j /\ j < start + BatchSize}

\* companies[i:i+batch_size], as the indices of its records.
BatchOf(start) == {j \in Indices : start < j /\ j <= start + BatchSize}

IdleTask == [pc |-> "idle", outcome |-> [kind |-> "none"], fetched |-> [kind |-> "none"]]

InFlight == {j \in Indices : task[j].pc \in {"start", "acquire", "sleep", "get"}}

HoldingPermit == {j \in Indices : task[j].pc \in {"sleep", "get"}}

\* A task raised: the nursery's cancel scope is cancelled.
Cancelling == \E j \in Indices : task[j].pc = "raised"

OrchInit ==
    /\ companies \in SeqsUpTo(CompanySet, MaxRecords)
    /\ max_concurrent \in 1..MaxGate
    /\ permits = max_concurrent
    /\ client = "none"
    /\ clock = NormTime
    /\ main_pc = "loop"
    /\ i = 0
    /\ task = [j \in 1..Len(companies) |-> IdleTask]
    /\ batch_results = <<>>
    /\ results = <<>>
    /\ IdleExcept("orch")

\* An entry of a result list: the record, tagged with the index of the
\* input record it answers and with the path that produced it.
Entry(j, rec, how) == [idx |-> j, rec |-> rec, how |-> how]

\* for i in range(0, len(companies), batch_size): open the nursery and
\* start one task per record of the batch.
StartBatch ==
    /\ main_pc = "loop"
    /\ i < Len(companies)
    /\ batch_results' = <<>>
    /\ task' = [j \in Indices |->
                  IF j \in BatchOf(i) THEN [IdleTask EXCEPT !.pc = "start"] ELSE task[j]]
    /\ main_pc' = "nursery"
    /\ UNCHANGED <<companies, max_concurrent, permits, client, clock, i, results>>
    /\ UNCHANGED notOrch

\* Mutant: the nursery block is left without waiting for its tasks.
NurseryExitsAtOnce == TRUE

\* The nursery block is left when every task it started has ended.
NurseryMayExit ==
    \A j \in BatchOf(i) : task[j].pc \in {"done", "raised", "cancelled"}

\* Leaving the nursery: a task's exception is re-raised, else
\* results.extend(batch_results) and the loop goes on.
CloseNursery ==
    /\ main_pc = "nursery"
    /\ NurseryMayExit
    /\ IF \E j \in BatchOf(i) : task[j].pc = "raised"
       THEN /\ main_pc' = "raised"
            /\ UNCHANGED <<i, results>>
       ELSE /\ results' = results \o batch_results
            /\ i' = i + BatchSize
            /\ main_pc' = "loop"
    /\ UNCHANGED <<companies, max_concurrent, permits, client, clock, task, batch_results>>
    /\ UNCHANGED notOrch

\* The loop is exhausted: return results.
ReturnResults ==
    /\ main_pc = "loop"
    /\ i >= Len(companies)
    /\ main_pc' = "returned"
    /\ UNCHANGED <<companies, max_concurrent, permits, client, clock, i, task,
                   batch_results, results>>
    /\ UNCHANGED notOrch

\* urllib.parse.quote(company_name) in scrape_wikipedia: a name that is
\* not a string (a NaN cell) raises TypeError before anything is fetched.
Quote(company_name) ==
    IF company_name = NaN
    THEN [kind |-> "raise", exc |-> "TypeError"]
    ELSE [kind |-> "return", value |-> company_name]

\* enrich_one up to its first suspension: a record without a name is
\* appended as it is; a name quote() rejects ends the lookup at once;
\* else scrape_company_info runs up to the gate.
TaskBegin(j) ==
    /\ task[j].pc = "start"
    /\ IF ~Truthy(CompanyName(companies[j]))
       THEN /\ batch_results' = Append(batch_results, Entry(j, companies[j], "no_name"))
            /\ task' = [task EXCEPT ![j].pc = "done"]
       ELSE IF Quote(CompanyName(companies[j])).kind = "raise"
       THEN LET lookup == Quote(CompanyName(companies[j]))
                ended  == EnrichOne(companies[j], lookup, clock)
            IN  /\ task' = [task EXCEPT ![j].pc =
                                 IF ended.kind = "append" THEN "done" ELSE "raised"]
                /\ batch_results' =
                       IF ended.kind = "append"
                       THEN Append(batch_results, Entry(j, ended.rec, "lookup_raised"))
                       ELSE batch_results
       ELSE /\ task' = [task EXCEPT ![j].pc = IF Cancelling THEN "cancelled" ELSE "acquire"]
            /\ UNCHANGED batch_results
    /\ UNCHANGED <<companies, max_concurrent, permits, client, clock, main_pc, i, results>>
    /\ UNCHANGED notOrch

\* async with self.semaphore: one permit is taken.
Acquire(j) ==
    /\ task[j].pc = "acquire"
    /\ IF Cancelling
       THEN /\ task' = [task EXCEPT ![j].pc = "cancelled"]
            /\ UNCHANGED permits
       ELSE /\ CanAcquire(permits)
            /\ permits' = permits - 1
            /\ task' = [task EXCEPT ![j].pc = "sleep"]
    /\ UNCHANGED <<companies, max_concurrent, client, clock, main_pc, i,
                   batch_results, results>>
    /\ UNCHANGED notOrch

\* trio.sleep(self.delay) is over: the client is fetched or created and
\* the request is sent.
SendRequest(j) ==
    /\ task[j].pc = "sleep"
    /\ IF Cancelling
       THEN /\ task' = [task EXCEPT ![j].pc = "cancelled"]
            /\ permits' = permits + 1
            /\ UNCHANGED <<client, clock>>
       ELSE /\ clock' = IF clock < MaxClock THEN clock + 1 ELSE clock
            /\ client' = GetHttpClient(client)
            /\ task' = [task EXCEPT ![j].pc = "get"]
            /\ UNCHANGED permits
    /\ UNCHANGED <<companies, max_concurrent, main_pc, i, batch_results, results>>
    /\ UNCHANGED notOrch

\* The tag of a result entry.
How(outcome, lookup) ==
    IF lookup.kind = "raise" THEN "lookup_raised"
    ELSE IF outcome.kind = "response" /\ outcome.status = 200 THEN "merged"
    ELSE "fetch_null"

\* client.get answers: fetch_url returns and gives its permit back, and
\* the task runs to its end without suspending again.
Response(j) ==
    /\ task[j].pc = "get"
    /\ IF Cancelling
       THEN /\ task' = [task EXCEPT ![j].pc = "cancelled"]
            /\ UNCHANGED batch_results
       ELSE \E outcome \in FetchOutcomes :
              LET fetched == FetchUrl(outcome)
                  lookup  == ScrapeWikipedia(fetched)
                  ended   == EnrichOne(companies[j], lookup, clock)
              IN  /\ task' = [task EXCEPT ![j] =
                                 [pc |-> IF ended.kind = "append" THEN "done" ELSE "raised",
                                  outcome |-> outcome, fetched |-> fetched]]
                  /\ batch_results' =
                         IF ended.kind = "append"
                         THEN Append(batch_results, Entry(j, ended.rec, How(outcome, lookup)))
                         ELSE batch_results
    /\ permits' = permits + 1
    /\ UNCHANGED <<companies, max_concurrent, client, clock, main_pc, i, results>>
    /\ UNCHANGED notOrch

Next ==
    \/ StartBatch
    \/ CloseNursery
    \/ ReturnResults
    \/ \E j \in Indices : TaskBegin(j)
    \/ \E j \in Indices : Acquire(j)
    \/ \E j \in Indices : SendRequest(j)
    \/ \E j \in Indices : Response(j)

Spec == OrchInit /\ [][Next]_vars

(***************************************************************************)
(* The entry points that run enrichment on a scraper of their own:         *)
(* enrich_company_dataframe, Fortune1000Ingestion.ingest_all,              *)
(* download_datasets.main_async and enrich_fortune1000_with_founded_year.  *)
(* Each is a prologue, the statements of its try block, its except clause  *)
(* and its finally clause.                                                 *)
(***************************************************************************)
\* Records one enrichment call of an entry point fetches for.
MaxEntryRecords == 2

\* The statements of the try block, in order.
TryBody(entry) ==
    CASE entry = "enrich_company_dataframe" ->
            <<"to_dict", "enrich", "DataFrame">>
      [] entry = "ingest_all" ->
            <<"download_fortune1000", "normalize_schema", "enrich_with_scraping">>
      [] entry = "main_async" ->
            <<"mkdir", "download_fortune1000", "normalize_schema", "enrich", "to_csv",
              "download_global_companies", "normalize_schema", "enrich", "to_csv">>
      [] entry = "enrich_fortune1000_with_founded_year" ->
            <<"to_dict", "enrich", "merge_back", "to_csv">>

\* What can happen before the try block is entered: the scraper is made
\* and the block entered, or the function returns or raises before that.
Prologue(entry) ==
    CASE entry = "enrich_company_dataframe" -> {"proceed"}
      [] entry = "ingest_all" -> {"proceed"}
      [] entry = "main_async" -> {"proceed", "raise"}
      [] entry = "enrich_fortune1000_with_founded_year" -> {"proceed", "return", "raise"}

\* The except clause of the try block: the exception that is pending once
\* it has run (enrich_company_dataframe has no except clause).
ExceptClause(entry, exc) ==
    CASE entry = "enrich_company_dataframe" -> exc
      [] entry = "ingest_all" -> exc
      [] entry = "main_async" -> "SystemExit"
      [] entry = "enrich_fortune1000_with_founded_year" -> "none"

\* Mutant: close() is the last statement of the try block.
ClosesOnSuccessOnly(entry, scraper, exc) == scraper /\ exc = "none"

\* Whether the finally clause calls scraper.close(): always, and in
\* ingest_all `if self.scraper`.
FinallyCloses(entry, scraper, exc) ==
    IF entry = "ingest_all" THEN scraper ELSE TRUE

\* WebScraper.close: the scraper's client afterwards.
Close(c) == "none"

EntryInit ==
    /\ e_entry \in
         {"enrich_company_dataframe", "ingest_all", "main_async", "enrich_fortune1000_with_founded_year"}
    /\ e_flag \in IF e_entry = "ingest_all" THEN BOOLEAN ELSE {FALSE}
    /\ e_pc = "prologue"
    /\ e_step = 1
    /\ e_pending = 0
    /\ e_exc = "none"
    \* Fortune1000Ingestion.__init__ makes the scraper when the flag is set.
    /\ e_scraper = (e_entry = "ingest_all" /\ e_flag)
    /\ e_fetches = 0
    /\ e_how = "running"
    /\ IdleExcept("entry")

EntryPrologue ==
    /\ e_pc = "prologue"
    /\ \E out \in Prologue(e_entry) :
         CASE out = "proceed" ->
                /\ e_pc' = "try"
                /\ e_scraper' = IF e_entry = "ingest_all" THEN e_scraper ELSE TRUE
                /\ UNCHANGED <<e_exc, e_how>>
           [] out = "return" ->
                /\ e_pc' = "exited"
                /\ e_how' = "returned"
                /\ UNCHANGED <<e_exc, e_scraper>>
           [] out = "raise" ->
                /\ e_pc' = "exited"
                /\ e_how' = "raised"
                /\ e_exc' = "Exception"
                /\ UNCHANGED e_scraper
    /\ UNCHANGED <<e_entry, e_flag, e_step, e_pending, e_fetches, client>>
    /\ UNCHANGED notEntry

\* The statement after statement e_step: the next one, or the return that
\* leaves the try block for the finally clause.
AfterStatement ==
    IF e_step = Len(TryBody(e_entry))
    THEN e_pc' = "finally" /\ UNCHANGED e_step
    ELSE e_pc' = "try" /\ e_step' = e_step + 1

\* One statement of the try block: the enrichment call starts, the call
\* of self.enrich_with_scraping is made, or a plain statement ends or raises.
EntryStatement ==
    /\ e_pc = "try"
    /\ LET stmt == TryBody(e_entry)[e_step]
       IN  CASE stmt = "enrich" ->
                  /\ e_pending' \in 0..MaxEntryRecords
                  /\ e_pc' = "enriching"
                  /\ UNCHANGED <<e_step, e_exc>>
             [] stmt = "enrich_with_scraping" ->
                  \* the attribute set in __init__ hides the method: with the
                  \* flag set the call is a call of True
                  IF e_flag
                  THEN /\ e_pc' = "except"
                       /\ e_exc' = "TypeError"
                       /\ UNCHANGED <<e_step, e_pending>>
                  ELSE AfterStatement /\ UNCHANGED <<e_pending, e_exc>>
             [] OTHER ->
                  \/ AfterStatement /\ UNCHANGED <<e_pending, e_exc>>
                  \/ /\ e_pc' = "except"
                     /\ e_exc' = "Exception"
                     /\ UNCHANGED <<e_step, e_pending>>
    /\ UNCHANGED <<e_entry, e_flag, e_scraper, e_fetches, e_how, client>>
    /\ UNCHANGED notEntry

\* A fetch of the running enrichment call reaches _get_http_client.
EntryFetch ==
    /\ e_pc = "enriching"
    /\ e_pending > 0
    /\ client' = GetHttpClient(client)
    /\ e_pending' = e_pending - 1
    /\ e_fetches' = e_fetches + 1
    /\ UNCHANGED <<e_entry, e_flag, e_pc, e_step, e_exc, e_scraper, e_how>>
    /\ UNCHANGED notEntry

\* enrich_companies_async returns.
EntryEnriched ==
    /\ e_pc = "enriching"
    /\ e_pending = 0
    /\ AfterStatement
    /\ UNCHANGED <<e_entry, e_flag, e_pending, e_exc, e_scraper, e_fetches, e_how, client>>
    /\ UNCHANGED notEntry

EntryExcept ==
    /\ e_pc = "except"
    /\ e_exc' = ExceptClause(e_entry, e_exc)
    /\ e_pc' = "finally"
    /\ UNCHANGED <<e_entry, e_flag, e_step, e_pending, e_scraper, e_fetches, e_how, client>>
    /\ UNCHANGED notEntry

\* The finally clause, and the function is left.
EntryFinally ==
    /\ e_pc = "finally"
    /\ client' = IF FinallyCloses(e_entry, e_scraper, e_exc) THEN Close(client) ELSE client
    /\ e_pc' = "exited"
    /\ e_how' = IF e_exc = "none" THEN "returned" ELSE "raised"
    /\ UNCHANGED <<e_entry, e_flag, e_step, e_pending, e_exc, e_scraper, e_fetches>>
    /\ UNCHANGED notEntry

NextEntry ==
    \/ EntryPrologue
    \/ EntryStatement
    \/ EntryFetch
    \/ EntryEnriched
    \/ EntryExcept
    \/ EntryFinally

SpecEntry == EntryInit /\ [][NextEntry]_vars

(***************************************************************************)
(* The fallback dataset resolvers: download_techsalerator_usa,             *)
(* download_17m_company_dataset and download_global_companies.             *)
(***************************************************************************)
\* dataset_options of each resolver, in the order of the list.
DatasetOptions(func) ==
    CASE func = "download_techsalerator_usa" ->
            <<"techsalerator/techsalerator-companies-dataset",
              "jeannicolasduval/2024-fortune-1000-companies",
              "rm1000/fortune-500-companies">>
      [] func = "download_17m_company_dataset" ->
            <<"justinas/companies-dataset",
              "bhavikjikadara/top-worlds-companies",
              "joebeachcapital/top-2000-companies-globally",
              "mysarahmadbhat/inc-5000-companies">>
      [] func = "download_global_companies" ->
            <<"justinas/companies-dataset",
              "bhavikjikadara/top-worlds-companies",
              "joebeachcapital/top-2000-companies-globally">>

\* A file of the working directory: its suffix, the dataset whose download
\* wrote it ("earlier" for a file that was there before the call) and
\* whether pandas can read it.
File(fmt, src, ok) == [fmt |-> fmt, src |-> src, ok |-> ok]

\* What one kaggle.api.dataset_download_files call can unzip into local_path.
Downloaded(dataset) ==
    {File("csv", dataset, TRUE), File("csv", dataset, FALSE),
     File("parquet", dataset, TRUE)}

\* kaggle.api.dataset_download_files: it returns or raises, and in both
\* cases it may have written files.
DownloadOutcomes(dataset) ==
    [raises : BOOLEAN, files : SUBSET Downloaded(dataset)]

\* local_path.glob("*.csv") and local_path.glob("*.parquet").
Glob(dir, fmt) == {f \in dir : f.fmt = fmt}

\* A candidate that leaves only parquet files beside is passed over.
HasCsvOnly(csv_files, parquet_files) == csv_files # {}

\* `if csv_files or parquet_files` (the if/elif of download_global_companies).
HasTabular(csv_files, parquet_files) == csv_files # {} \/ parquet_files # {}

\* The files read: every CSV file if there is one, else every parquet file.
FilesRead(csv_files, parquet_files) ==
    IF csv_files # {} THEN csv_files ELSE parquet_files

\* pd.read_csv / pd.read_parquet raises on a file it cannot read.
ReadRaises(files) == \E f \in files : ~f.ok

\* Mutant: rmtree is left out, the files of the failed pass stay.
KeepFiles(dir) == dir

\* shutil.rmtree(local_path) followed by local_path.mkdir(exist_ok=True):
\* the files of the directory afterwards.
Cleanup(dir) == {}

\* local_path.mkdir(exist_ok=True): whether the directory exists afterwards.
Mkdir(exists) == TRUE

\* One pass of the body of `for dataset in dataset_options`, from a working
\* directory dir and an outcome of the download: what the pass ends with
\* (return df, or continue), the directory it leaves, and what it saw.
TryDataset(dataset, dir, download) ==
    LET after == dir \cup download.files
        csv_files == Glob(after, "csv")
        parquet_files == Glob(after, "parquet")
        reads == FilesRead(csv_files, parquet_files)
        seen == [dataset |-> dataset,
                 raised |-> download.raises,
                 tabular |-> csv_files \cup parquet_files # {},
                 unreadable |-> ReadRaises(reads)]
    IN  IF download.raises
        THEN [kind |-> "continue", dir |-> Cleanup(after),
              exists |-> Mkdir(FALSE), df |-> {},
              seen |-> seen]
        ELSE IF HasTabular(csv_files, parquet_files)
        THEN IF ReadRaises(reads)
             THEN [kind |-> "continue", dir |-> Cleanup(after),
                   exists |-> Mkdir(FALSE), df |-> {},
                   seen |-> seen]
             ELSE [kind |-> "return", dir |-> after, exists |-> TRUE, df |-> reads,
                   seen |-> seen]
        ELSE [kind |-> "continue", dir |-> Cleanup(after),
              exists |-> Mkdir(FALSE), df |-> {},
              seen |-> seen]

ResolveInit ==
    /\ r_func \in
         {"download_techsalerator_usa", "download_17m_company_dataset",
          "download_global_companies"}
    /\ r_pc = "called"
    /\ r_idx = 0
    /\ dir_exists \in BOOLEAN
    \* files of an earlier run may lie in a directory that exists
    /\ workdir \in IF dir_exists
                    THEN SUBSET {File("csv", "earlier", TRUE),
                                 File("parquet", "earlier", TRUE)}
                    ELSE {{}}
    /\ r_log = <<>>
    /\ r_table = {}
    /\ r_exc = "none"
    /\ IdleExcept("resolve")

\* The statements before the loop: download_global_companies authenticates
\* (the class authenticates in __init__), then local_path.mkdir.
ResolveBegin ==
    /\ r_pc = "called"
    /\ \E authenticated \in BOOLEAN :
          /\ r_func # "download_global_companies" => authenticated
          /\ IF authenticated
             THEN /\ r_pc' = "loop"
                  /\ r_idx' = 1
                  /\ r_exc' = "none"
                  /\ dir_exists' = Mkdir(dir_exists)
             ELSE /\ r_pc' = "raised"
                  /\ r_idx' = 0
                  /\ r_exc' = "authenticate"
                  /\ dir_exists' = dir_exists
    /\ UNCHANGED <<r_func, workdir, r_log, r_table>>
    /\ UNCHANGED notResolve

\* One iteration of the loop over dataset_options.
ResolveTry ==
    /\ r_pc = "loop"
    /\ r_idx <= Len(DatasetOptions(r_func))
    /\ \E download \in DownloadOutcomes(DatasetOptions(r_func)[r_idx]) :
          LET pass == TryDataset(DatasetOptions(r_func)[r_idx], workdir, download)
          IN  /\ workdir' = pass.dir
              /\ dir_exists' = pass.exists
              /\ r_log' = Append(r_log, pass.seen)
              /\ IF pass.kind = "return"
                 THEN /\ r_pc' = "returned"
                      /\ r_table' = pass.df
                      /\ r_idx' = r_idx
                 ELSE /\ r_pc' = "loop"
                      /\ r_table' = r_table
                      /\ r_idx' = r_idx + 1
    /\ UNCHANGED <<r_func, r_exc>>
    /\ UNCHANGED notResolve

\* The raise after the loop.
ResolveExhausted ==
    /\ r_pc = "loop"
    /\ r_idx > Len(DatasetOptions(r_func))
    /\ r_pc' = "raised"
    /\ r_exc' = "Failed to download any dataset"
    /\ UNCHANGED <<r_func, r_idx, workdir, dir_exists, r_log, r_table>>
    /\ UNCHANGED notResolve

NextResolve ==
    \/ ResolveBegin
    \/ ResolveTry
    \/ ResolveExhausted

SpecResolve == ResolveInit /\ [][NextResolve]_vars

(***************************************************************************)
(* The schema normalizers: Fortune1000Ingestion.normalize_schema,          *)
(* KaggleIngestion.normalize_schema and download_datasets.normalize_schema.*)
(* A DataFrame is [nrows, cols]: cols is the sequence of its columns, each *)
(* with its label, the source column it comes from and its cells, one per  *)
(* row.  A column label is its lower-case text together with the way the   *)
(* source spells it (as it is, or in upper case with spaces around it).    *)
(***************************************************************************)
\* Columns of an input table.
MaxColumns == 2

\* Rows of an input table.
MaxRows == 2

\* column_mapping of Fortune1000Ingestion.normalize_schema and of
\* download_datasets.normalize_schema (the two dicts are the same).
column_mapping ==
    [name |-> "company_name", company |-> "company_name",
     company_name |-> "company_name",
     website |-> "domain", url |-> "domain", domain |-> "domain",
     industry |-> "industry", sector |-> "industry", industry_type |-> "industry",
     country |-> "country", country_code |-> "country", location |-> "country",
     employees |-> "employee_count", employee_count |-> "employee_count",
     num_employees |-> "employee_count",
     revenue |-> "revenue", revenues |-> "revenue", annual_revenue |-> "revenue",
     founded |-> "founded_year", founded_year |-> "founded_year",
     year_founded |-> "founded_year", established |-> "founded_year"]

\* default_mapping of KaggleIngestion.normalize_schema.
default_mapping ==
    [name |-> "company_name", company |-> "company_name",
     company_name |-> "company_name",
     domain |-> "domain", website |-> "domain", url |-> "domain",
     industry |-> "industry", industry_type |-> "industry", sector |-> "industry",
     country |-> "country", country_code |-> "country",
     employees |-> "employee_count", employee_count |-> "employee_count",
     num_employees |-> "employee_count",
     revenue |-> "revenue", annual_revenue |-> "revenue",
     founded |-> "founded_year", founded_year |-> "founded_year",
     year_founded |-> "founded_year"]

required_columns ==
    <<"company_name", "domain", "industry", "country",
      "employee_count", "revenue", "founded_year">>

final_columns == required_columns \o <<"source_system", "last_updated_at">>

\* The label whose spelling is the text itself.
Label(text) == [text |-> text, style |-> "plain"]

\* col.lower().strip()
ColLowerStrip(label) == label.text

\* The numbers among the cell values.
Numbers == {Zero, "5000", "9.9", "1998"}

\* df.columns, as a set of labels.
Columns(df) == {df.cols[k].label : k \in DOMAIN df.cols}

\* The positions of the columns of df that bear a label.
Positions(df, label) == {k \in DOMAIN df.cols : df.cols[k].label = label}

\* rename_dict and df.rename(columns=rename_dict): a column whose lowered,
\* stripped name is a key of the mapping takes the mapped name.
Rename(df, mapping) ==
    [df EXCEPT !.cols =
        [k \in DOMAIN df.cols |->
            IF ColLowerStrip(df.cols[k].label) \in DOMAIN mapping
            THEN [df.cols[k] EXCEPT
                     !.label = Label(mapping[ColLowerStrip(df.cols[k].label)])]
            ELSE df.cols[k]]]

\* A column that holds one value in every row (df[col] = value).
Scalar(df, text, value) ==
    [label |-> Label(text), origin |-> Label("<added>"),
     cells |-> [r \in 1..df.nrows |-> value]]

\* for col in required_columns: if col not in df.columns: df[col] = None
EnsureRequired(df) ==
    LET missing == SelectSeq(required_columns, LAMBDA f : Label(f) \notin Columns(df))
    IN  [df EXCEPT !.cols =
            df.cols \o [k \in DOMAIN missing |-> Scalar(df, missing[k], PyNone)]]

\* The cleaning step of one field in Fortune1000Ingestion.normalize_schema:
\* astype(str) and the .str chain for company_name, domain and country,
\* pd.to_numeric(errors='coerce') for the three numeric fields.
CleanCell(field, cell) ==
    LET \* astype(str)
        AsStr(v) ==
            CASE v = PyNone -> StrNone
              [] v = NaN -> "'nan'"
              [] v \in Numbers -> "'" \o v \o "'"
              [] OTHER -> v
        \* str.strip()
        StrStrip(v) ==
            CASE v = "' Acme '" -> "'Acme'"
              [] v = "' https://www.acme.com/about '" -> "'https://www.acme.com/about'"
              [] v = "' UNITED STATES '" -> "'UNITED STATES'"
              [] OTHER -> v
        \* str.lower()
        StrLower(v) ==
            CASE v = "' HTTPS://WWW.Acme.com/about '" -> "' https://www.acme.com/about '"
              [] v = StrNone -> "'none'"
              [] OTHER -> v
        \* str.upper()
        StrUpper(v) ==
            CASE v = "' united states '" -> "' UNITED STATES '"
              [] v = StrNone -> "'NONE'"
              [] v = "'nan'" -> "'NAN'"
              [] OTHER -> v
        \* str.replace(r'^https?://', '', regex=True)
        RemoveScheme(v) ==
            IF v = "'https://www.acme.com/about'" THEN "'www.acme.com/about'" ELSE v
        \* str.replace(r'^www\.', '', regex=True)
        RemoveWww(v) ==
            IF v = "'www.acme.com/about'" THEN "'acme.com/about'" ELSE v
        \* str.split('/').str[0]
        BeforeSlash(v) ==
            IF v = "'acme.com/about'" THEN "'acme.com'" ELSE v
        \* Series.replace({...}) of the country cleaning
        ReplaceCountry(v) ==
            CASE v \in {"'US'", "'UNITED STATES'", "'UNITED STATES OF AMERICA'"} -> "'USA'"
              [] v = "'UNITED KINGDOM'" -> "'UK'"
              [] OTHER -> v
        \* pd.to_numeric(errors='coerce')
        ToNumeric(v) ==
            CASE v \in Numbers -> v
              [] v = "'1998'" -> "1998"
              [] OTHER -> NaN
    IN  CASE field = "company_name" -> StrStrip(AsStr(cell))
          [] field = "domain" ->
                BeforeSlash(RemoveWww(RemoveScheme(StrStrip(StrLower(AsStr(cell))))))
          [] field = "country" -> ReplaceCountry(StrStrip(StrUpper(AsStr(cell))))
          [] field \in {"employee_count", "revenue", "founded_year"} -> ToNumeric(cell)
          [] OTHER -> cell

\* The "Clean and normalize data" and "Convert numeric columns" blocks:
\* the cleaned frame, or the exception of the first step that raises.
Clean(df) ==
    LET \* the fields with a cleaning step, in the order of the steps
        cleaned == <<"company_name", "domain", "country",
                     "employee_count", "revenue", "founded_year">>
        \* df[field] is a DataFrame, not a Series, when two columns bear the
        \* label: it has no .str accessor, and pd.to_numeric does not take it
        raising == SelectSeq(cleaned, LAMBDA f : Cardinality(Positions(df, Label(f))) > 1)
    IN  IF raising # <<>>
        THEN [kind |-> "raise",
              exc |-> IF raising[1] \in {"company_name", "domain", "country"}
                      THEN "AttributeError" ELSE "TypeError"]
        ELSE [kind |-> "ok",
              df |-> [df EXCEPT !.cols =
                        [k \in DOMAIN df.cols |->
                            [df.cols[k] EXCEPT !.cells =
                                [r \in 1..df.nrows |->
                                    CleanCell(df.cols[k].label.text, df.cols[k].cells[r])]]]]]

\* df[text] = value for a scalar: every column of that label is overwritten;
\* a new column is appended when there is none.
SetColumn(df, text, value) ==
    IF Positions(df, Label(text)) = {}
    THEN [df EXCEPT !.cols = Append(df.cols, Scalar(df, text, value))]
    ELSE [df EXCEPT !.cols =
            [k \in DOMAIN df.cols |->
                IF df.cols[k].label = Label(text)
                THEN [df.cols[k] EXCEPT !.cells = [r \in 1..df.nrows |-> value],
                                        !.origin = Label("<added>")]
                ELSE df.cols[k]]]

\* df_normalized["source_system"] = ...; df_normalized["last_updated_at"] = ...
AddMetadata(df, source_system) ==
    SetColumn(SetColumn(df, "source_system", source_system),
              "last_updated_at", Iso(NormTime))

RECURSIVE SelectColumns(_, _)
\* df[names]: for each name in turn, every column that bears it.
SelectColumns(df, names) ==
    IF names = <<>> THEN <<>>
    ELSE SelectSeq(df.cols, LAMBDA c : c.label = Label(Head(names)))
            \o SelectColumns(df, Tail(names))

\* normalize_schema of one of the three normalizers: the frame it returns,
\* or the exception that leaves it.
NormalizeSchema(func, df, source_system) ==
    LET mapping == IF func = "KaggleIngestion.normalize_schema"
                   THEN default_mapping ELSE column_mapping
        required == EnsureRequired(Rename(df, mapping))
        \* df_normalized[final_columns]
        SelectFinal(d) == [d EXCEPT !.cols = SelectColumns(d, final_columns)]
    IN  IF func = "Fortune1000Ingestion.normalize_schema"
        THEN IF Clean(required).kind = "raise"
             THEN Clean(required)
             ELSE [kind |-> "return",
                   df |-> SelectFinal(AddMetadata(Clean(required).df, source_system))]
        ELSE [kind |-> "return",
              df |-> SelectFinal(AddMetadata(required, source_system))]

\* DataFrame.to_dict('records'): one dict per row; of two columns with one
\* label the later one gives the value.
ToDictRecords(df) ==
    [r \in 1..df.nrows |->
        [text \in {df.cols[k].label.text : k \in DOMAIN df.cols} |->
            LET last == CHOOSE k \in DOMAIN df.cols :
                            /\ df.cols[k].label.text = text
                            /\ \A j \in DOMAIN df.cols :
                                  df.cols[j].label.text = text => j <= k
            IN  df.cols[last].cells[r]]]

(***************************************************************************)
(* The tables given to a normalizer.                                       *)
(***************************************************************************)
\* Names of source columns, in lower case: the variants of the seven
\* canonical fields and one name that is no variant.
SourceTexts ==
    <<"name", "company", "company_name", "website", "url", "domain",
      "industry", "sector", "country", "location", "employees", "num_employees",
      "revenue", "annual_revenue", "founded", "year_founded", "ticker">>

\* The cell of a source column in a row of a profile: the well-formed or
\* the malformed value of the canonical field the column is about.
SourceCell(text, profile) ==
    LET kind == IF text \in DOMAIN column_mapping THEN column_mapping[text] ELSE "other"
        clean ==
            CASE kind = "company_name" -> "'Acme'"
              [] kind = "domain" -> "'acme.com'"
              [] kind = "industry" -> "'Retail'"
              [] kind = "country" -> "'USA'"
              [] kind = "employee_count" -> "5000"
              [] kind = "revenue" -> "9.9"
              [] kind = "founded_year" -> "1998"
              [] OTHER -> "'ACM'"
        messy ==
            CASE kind = "company_name" -> "' Acme '"
              [] kind = "domain" -> "' HTTPS://WWW.Acme.com/about '"
              [] kind = "industry" -> EmptyStr
              [] kind = "country" -> "' united states '"
              [] kind = "employee_count" -> "'1,234'"
              [] kind = "revenue" -> "'N/A'"
              [] kind = "founded_year" -> "'1998'"
              [] OTHER -> "'?'"
    IN  CASE profile = "clean" -> clean
          [] profile = "nan" -> NaN
          [] profile = "none" -> PyNone
          [] profile = "messy" -> messy

\* The input table with the source columns of the given positions of
\* SourceTexts, spelled in a style, and one row per profile.
SourceFrame(chosen, style, profiles) ==
    LET picked == SelectSeq([k \in DOMAIN SourceTexts |-> k], LAMBDA k : k \in chosen)
    IN  [nrows |-> Len(profiles),
         cols |-> [k \in DOMAIN picked |->
                     [label |-> [text |-> SourceTexts[picked[k]], style |-> style],
                      origin |-> [text |-> SourceTexts[picked[k]], style |-> style],
                      cells |-> [r \in DOMAIN profiles |->
                                   SourceCell(SourceTexts[picked[k]], profiles[r])]]]]

NormInit ==
    /\ n_func \in {"Fortune1000Ingestion.normalize_schema",
                   "KaggleIngestion.normalize_schema",
                   "download_datasets.normalize_schema"}
    /\ n_pc = "call"
    /\ \E chosen \in {c \in SUBSET DOMAIN SourceTexts : Cardinality(c) <= MaxColumns},
          \* column names as in SourceTexts, or in upper case with spaces
          \* around them
          style \in {"plain", "upper_padded"},
          \* rows of well-formed values, of missing values as read from CSV
          \* (NaN) or from an object column (None), and of malformed values
          profiles \in SeqsUpTo({"clean", "nan", "none", "messy"}, MaxRows) :
            n_df = SourceFrame(chosen, style, profiles)
    \* the source_system the callers pass
    /\ n_source = CASE n_func = "Fortune1000Ingestion.normalize_schema" -> "'fortune1000'"
                     [] n_func = "KaggleIngestion.normalize_schema" -> "'techsalerator_usa'"
                     [] n_func = "download_datasets.normalize_schema" -> "'global_companies'"
    /\ n_out = [kind |-> "pending"]
    /\ IdleExcept("norm")

\* One call of normalize_schema.
NormReturn ==
    /\ n_pc = "call"
    /\ n_out' = NormalizeSchema(n_func, n_df, n_source)
    /\ n_pc' = IF NormalizeSchema(n_func, n_df, n_source).kind = "return"
               THEN "returned" ELSE "raised"
    /\ UNCHANGED <<n_func, n_df, n_source>>
    /\ UNCHANGED notNorm

SpecNorm == NormInit /\ [][NormReturn]_vars

(***************************************************************************)
(* The functions that split a normalized table, enrich one part and put    *)
(* the parts together: Fortune1000Ingestion.enrich_with_scraping and       *)
(* download_datasets.enrich_with_web_scraper.  A table is the sequence of  *)
(* its records.                                                            *)
(***************************************************************************)
\* Records of a table given to a partitioning function.
MaxTable == 2

\* The fields enrich_with_scraping looks at.
PriorityFields == {"domain", "industry", "employee_count", "founded_year"}

\* df.isnull() | (df == '') | (df == 'None') on one cell.
Missing(v) == IsNull(v) \/ v = EmptyStr \/ v = StrNone

\* needs_enrichment (missing_founded in enrich_with_web_scraper) of a record.
NeedsEnrichment(func, rec) ==
    IF func = "Fortune1000Ingestion.enrich_with_scraping"
    THEN \E f \in PriorityFields : Missing(rec[f])
    ELSE Missing(rec["founded_year"])

\* A record of a normalized table.
PartRecord(name, domain, industry, employees, year) ==
    [company_name    |-> name,
     domain          |-> domain,
     industry        |-> industry,
     country         |-> "'USA'",
     employee_count  |-> employees,
     revenue         |-> NaN,
     founded_year    |-> year,
     source_system   |-> "'fortune1000'",
     last_updated_at |-> Iso(NormTime)]

\* Tables hold a complete record, records with one null among the four
\* fields (a founded_year that is NaN, as read from a file, or None), a
\* record whose industry is the empty string and a record whose
\* founded_year is the string 'None'.
PartRecords ==
    {PartRecord("'Acme'", "'acme.com'", "'Retail'", "5000", "1998"),
     PartRecord("'Beta'", PyNone, "'Retail'", "5000", "1998"),
     PartRecord("'Core'", "'core.com'", "'Retail'", "5000", NaN),
     PartRecord("'Dune'", "'dune.com'", EmptyStr, "5000", "1998"),
     PartRecord("'Echo'", "'echo.com'", "'Retail'", NaN, StrNone),
     PartRecord("'Fern'", "'fern.com'", "'Retail'", "5000", PyNone)}

\* The orders in which the tasks of enrich_companies_async can append the
\* results of n records: any order inside a batch, batch after batch.
CompletionOrders(n) ==
    {pi \in [1..n -> 1..n] :
        /\ \A a, b \in 1..n : a # b => pi[a] # pi[b]
        /\ \A a \in 1..n : (pi[a] - 1) \div BatchSize = (a - 1) \div BatchSize}

\* The lists enrich_companies_async can return for the records of the given
\* positions of a table: one entry per record, tagged with the position of
\* the record it was made from.
EnrichedLists(df, sent) ==
    {[k \in DOMAIN sent |->
         [idx |-> sent[pi[k]],
          rec |-> EnrichOne(df[sent[pi[k]]], lookups[pi[k]], NormTime + 1).rec]] :
       pi \in CompletionOrders(Len(sent)),
       \* a lookup comes back with nothing, or with a year and an industry
       lookups \in [DOMAIN sent ->
                      {[kind |-> "data", data |-> <<>>],
                       [kind |-> "data",
                        data |-> [founded_year |-> "1976", industry |-> "'Software'"]]}]}

\* row.get('founded_year') is written when
\* pd.notna(row.get('founded_year')) and row.get('founded_year').
Writable(row) ==
    ~IsNull(Get(row, "founded_year")) /\ Truthy(Get(row, "founded_year"))

\* The write-back loop of enrich_with_web_scraper: row idx of the enriched
\* frame updates row idx of the records that were sent.
WriteBack(df, sent, list) ==
    [k \in DOMAIN sent |->
        [part |-> "enriched", idx |-> sent[k],
         rec |-> IF Writable(list[k].rec)
                 THEN [df[sent[k]] EXCEPT !["founded_year"] = list[k].rec["founded_year"]]
                 ELSE df[sent[k]]]]

\* The rows of the untouched part, as entries of the final frame.
Untouched(df, rest) ==
    [k \in DOMAIN rest |-> [part |-> "complete", idx |-> rest[k], rec |-> df[rest[k]]]]

\* pd.concat([complete part, enriched part], ignore_index=True)
Combine(func, df, sent, rest, list) ==
    IF func = "Fortune1000Ingestion.enrich_with_scraping"
    THEN Untouched(df, rest)
            \o [k \in DOMAIN list |->
                   [part |-> "enriched", idx |-> list[k].idx, rec |-> list[k].rec]]
    ELSE Untouched(df, rest) \o WriteBack(df, sent, list)

PartInit ==
    /\ p_func \in
         {"Fortune1000Ingestion.enrich_with_scraping", "enrich_with_web_scraper"}
    /\ p_flag \in IF p_func = "Fortune1000Ingestion.enrich_with_scraping"
                 THEN BOOLEAN ELSE {TRUE}
    /\ p_pc = "call"
    /\ p_df \in SeqsUpTo(PartRecords, MaxTable)
    /\ p_sent = <<>>
    /\ p_rest = <<>>
    /\ p_list = <<>>
    /\ p_fetched = {}
    /\ p_out = <<>>
    /\ IdleExcept("part")

\* Up to the call of enrich_companies_async: the guard, the partition and
\* the early return when no record is to be enriched.
PartSplit ==
    /\ p_pc = "call"
    /\ LET rows == [k \in DOMAIN p_df |-> k]
           to_enrich == SelectSeq(rows, LAMBDA k : NeedsEnrichment(p_func, p_df[k]))
           complete == SelectSeq(rows, LAMBDA k : ~NeedsEnrichment(p_func, p_df[k]))
       IN  IF ~p_flag
           THEN /\ p_pc' = "returned"
                /\ p_out' = Untouched(p_df, rows)
                /\ UNCHANGED <<p_sent, p_rest>>
           ELSE /\ p_sent' = to_enrich
                /\ p_rest' = complete
                /\ IF to_enrich = <<>>
                   THEN p_pc' = "returned" /\ p_out' = Untouched(p_df, rows)
                   ELSE p_pc' = "enriching" /\ p_out' = p_out
    /\ UNCHANGED <<p_func, p_flag, p_df, p_list, p_fetched>>
    /\ UNCHANGED notPart

\* enrich_companies_async(companies_to_enrich.to_dict('records')) returns;
\* a fetch was made for every record sent that has a name.
PartEnrich ==
    /\ p_pc = "enriching"
    /\ p_list' \in EnrichedLists(p_df, p_sent)
    /\ p_fetched' = {p_sent[k] : k \in {j \in DOMAIN p_sent :
                                          Truthy(CompanyName(p_df[p_sent[j]]))}}
    /\ p_pc' = "combining"
    /\ UNCHANGED <<p_func, p_flag, p_df, p_sent, p_rest, p_out>>
    /\ UNCHANGED notPart

\* The rest of the function: the enriched part is put after the complete one.
PartCombine ==
    /\ p_pc = "combining"
    /\ p_out' = Combine(p_func, p_df, p_sent, p_rest, p_list)
    /\ p_pc' = "returned"
    /\ UNCHANGED <<p_func, p_flag, p_df, p_sent, p_rest, p_list, p_fetched>>
    /\ UNCHANGED notPart

NextPart ==
    \/ PartSplit
    \/ PartEnrich
    \/ PartCombine

SpecPart == PartInit /\ [][NextPart]_vars

(***************************************************************************)
(* The ingest_all entry points, which chain download, normalization and    *)
(* enrichment: KaggleIngestion.ingest_all (two sources, each in a try      *)
(* block of its own) and Fortune1000Ingestion.ingest_all (one source, one  *)
(* try block whose except clause re-raises).                               *)
(***************************************************************************)
\* The sources of an entry point: the function that downloads each and the
\* source_system passed to normalize_schema.
Sources(entry) ==
    IF entry = "KaggleIngestion.ingest_all"
    THEN <<[download |-> "download_techsalerator_usa", id |-> "'techsalerator_usa'"],
           [download |-> "download_17m_company_dataset", id |-> "'17m_companies'"]>>
    ELSE <<[download |-> "download_fortune1000", id |-> "'fortune1000'"]>>

\* self.normalize_schema of the class of the entry point.
NormalizerOf(entry) ==
    IF entry = "KaggleIngestion.ingest_all"
    THEN "KaggleIngestion.normalize_schema"
    ELSE "Fortune1000Ingestion.normalize_schema"

\* What a download function does: it returns a table, or raises when no
\* dataset could be downloaded and read.
DownloadResults ==
    {[kind |-> "return", df |-> SourceFrame(chosen, "plain", <<"clean">>)] :
        chosen \in {c \in SUBSET DOMAIN SourceTexts : Cardinality(c) <= MaxColumns}}
        \cup {[kind |-> "raise", exc |-> "Exception"]}

IngestInit ==
    /\ g_entry \in
         {"KaggleIngestion.ingest_all", "Fortune1000Ingestion.ingest_all"}
    /\ g_flag \in IF g_entry = "Fortune1000Ingestion.ingest_all" THEN BOOLEAN ELSE {FALSE}
    /\ g_pc = "download"
    /\ g_src = 1
    /\ g_df = <<>>
    /\ g_results = <<>>
    /\ g_log = <<>>
    /\ g_how = "running"
    /\ g_exc = "none"
    /\ g_saved = [kind |-> "pending"]
    /\ IdleExcept("ingest")

\* The function goes on after the try block of source g_src (Kaggle): the
\* next source, or `return results`.
AfterSource ==
    /\ IF g_src < Len(Sources(g_entry))
       THEN g_src' = g_src + 1 /\ g_pc' = "download" /\ g_how' = g_how
       ELSE g_src' = g_src /\ g_pc' = "exited" /\ g_how' = "returned"
    /\ UNCHANGED <<g_exc, client>>

\* The function is left (Fortune 1000): the finally clause closes the
\* scraper `if self.scraper`, then the function returns or the exception
\* re-raised by the except clause goes to the caller.
Leave(exc) ==
    /\ g_pc' = "exited"
    /\ g_exc' = exc
    /\ g_how' = IF exc = "none" THEN "returned" ELSE "raised"
    /\ client' = IF g_flag THEN Close(client) ELSE client
    /\ UNCHANGED g_src

\* An exception of the given cause is raised inside the try block: the
\* except clause of KaggleIngestion.ingest_all logs it and the function
\* goes on; that of Fortune1000Ingestion.ingest_all logs it and re-raises.
Failed(cause, exc) ==
    /\ g_log' = Append(g_log, [source |-> g_src, cause |-> cause, exc |-> exc])
    /\ IF g_entry = "KaggleIngestion.ingest_all" THEN AfterSource ELSE Leave(exc)

\* The download of source g_src returns or raises.
IngestDownload ==
    /\ g_pc = "download"
    /\ \E out \in DownloadResults :
         IF out.kind = "raise"
         THEN Failed("source_unavailable", out.exc) /\ UNCHANGED <<g_df, g_results>>
         ELSE /\ g_df' = out.df
              /\ g_pc' = "normalize"
              /\ UNCHANGED <<g_src, g_results, g_log, g_how, g_exc, client>>
    /\ UNCHANGED <<g_entry, g_flag, g_saved>>
    /\ UNCHANGED notIngest

\* normalize_schema of the downloaded table returns or raises.
IngestNormalize ==
    /\ g_pc = "normalize"
    /\ LET out == NormalizeSchema(NormalizerOf(g_entry), g_df, Sources(g_entry)[g_src].id)
       IN  IF out.kind = "raise"
           THEN Failed("malformed_table", out.exc) /\ UNCHANGED g_results
           ELSE /\ g_results' = Append(g_results, out.df)
                /\ g_log' = g_log
                /\ IF g_entry = "KaggleIngestion.ingest_all"
                   THEN AfterSource
                   ELSE /\ g_pc' = "enrich"
                        /\ UNCHANGED <<g_src, g_how, g_exc, client>>
    /\ UNCHANGED <<g_entry, g_flag, g_df, g_saved>>
    /\ UNCHANGED notIngest

\* if self.enrich_with_scraping: await self.enrich_with_scraping(df): the
\* attribute set in __init__ hides the method, the call is a call of True.
IngestEnrich ==
    /\ g_pc = "enrich"
    /\ IF g_flag
       THEN Failed("not_callable", "TypeError")
       ELSE Leave("none") /\ g_log' = g_log
    /\ UNCHANGED <<g_entry, g_flag, g_df, g_results, g_saved>>
    /\ UNCHANGED notIngest

\* main_ingestion.main, step 2, once KaggleIngestion.ingest_all has returned
\* its list: `if datasets and len(datasets) > 1` the second table of the
\* list is saved as global_companies.csv, else nothing is saved.
MainSave ==
    /\ g_entry = "KaggleIngestion.ingest_all"
    /\ g_pc = "exited"
    /\ g_saved.kind = "pending"
    /\ g_saved' = IF Len(g_results) > 1
                  THEN [kind |-> "saved", df |-> g_results[2]]
                  ELSE [kind |-> "skipped"]
    /\ UNCHANGED <<g_entry, g_flag, g_pc, g_src, g_df, g_results, g_log, g_how, g_exc,
                   client>>
    /\ UNCHANGED notIngest

NextIngest ==
    \/ IngestDownload
    \/ IngestNormalize
    \/ IngestEnrich
    \/ MainSave

SpecIngest == IngestInit /\ [][NextIngest]_vars

(***************************************************************************)
(* One call of parse_wikipedia_infobox on a document.                      *)
(***************************************************************************)
SpecParse == ParseInit /\ [][ParseReturn]_vars

(***************************************************************************)
(* fetch_url and close called by several tasks on one WebScraper.  A task  *)
(* runs between two suspension points without interruption; a task that is *)
(* suspended in fetch_url may be cancelled there.  HTTP client instances   *)
(* are numbered in the order _get_http_client creates them, 0 stands for   *)
(* None; f_open holds the instances that are not closed.                   *)
(***************************************************************************)
\* Tasks that call the scraper.
MaxCallers == 3

\* Calls the tasks make in all.
MaxCalls == 4

FetchInit ==
    /\ f_max \in 1..MaxGate
    /\ f_permits = f_max
    /\ f_client = 0
    /\ f_open = {}
    /\ f_made = 0
    /\ f_call = [c \in 1..MaxCallers |->
                   [op |-> "none", pc |-> "idle", seen |-> 0, steps |-> <<>>,
                    fetched |-> [kind |-> "none"]]]
    /\ f_calls = 0
    /\ f_overlap = FALSE
    /\ IdleExcept("fetch")

\* A task calls fetch_url: it runs up to `async with self.semaphore`.
CallFetch(c) ==
    /\ f_call[c].pc \in {"idle", "done", "cancelled"}
    /\ f_calls < MaxCalls
    /\ f_calls' = f_calls + 1
    /\ f_call' = [f_call EXCEPT ![c] =
                     [op |-> "fetch_url", pc |-> "acquire", seen |-> 0, steps |-> <<>>,
                      fetched |-> [kind |-> "none"]]]
    /\ UNCHANGED <<f_max, f_permits, f_client, f_open, f_made, f_overlap>>
    /\ UNCHANGED notFetch

\* Mutant: close drops the client without closing it.
CallCloseForgets(c) ==
    /\ f_call[c].pc \in {"idle", "done", "cancelled"}
    /\ f_calls < MaxCalls
    /\ f_calls' = f_calls + 1
    /\ f_overlap' = (f_overlap \/ \E d \in DOMAIN f_call : f_call[d].pc = "aclose")
    /\ f_call' = [f_call EXCEPT ![c] =
                     [op |-> "close", pc |-> IF f_client # 0 THEN "aclose" ELSE "done",
                      seen |-> f_client, steps |-> <<>>, fetched |-> [kind |-> "none"]]]
    /\ UNCHANGED <<f_max, f_permits, f_client, f_open, f_made>>
    /\ UNCHANGED notFetch

\* A task calls close: `if self.client:` a client that is there is closed
\* and the task is suspended in aclose; else self.client = None at once.
CallClose(c) ==
    /\ f_call[c].pc \in {"idle", "done", "cancelled"}
    /\ f_calls < MaxCalls
    /\ f_calls' = f_calls + 1
    /\ f_overlap' = (f_overlap \/ \E d \in DOMAIN f_call : f_call[d].pc = "aclose")
    /\ f_open' = f_open \ {f_client}
    /\ f_call' = [f_call EXCEPT ![c] =
                     [op |-> "close", pc |-> IF f_client # 0 THEN "aclose" ELSE "done",
                      seen |-> f_client, steps |-> <<>>, fetched |-> [kind |-> "none"]]]
    /\ UNCHANGED <<f_max, f_permits, f_client, f_made>>
    /\ UNCHANGED notFetch

\* aclose is over: self.client = None.
CloseEnd(c) ==
    /\ f_call[c].pc = "aclose"
    /\ f_client' = 0
    /\ f_call' = [f_call EXCEPT ![c].pc = "done"]
    /\ UNCHANGED <<f_max, f_permits, f_open, f_made, f_calls, f_overlap>>
    /\ UNCHANGED notFetch

\* async with self.semaphore: one permit is taken.
FetchAcquire(c) ==
    /\ f_call[c].pc = "acquire"
    /\ CanAcquire(f_permits)
    /\ f_permits' = f_permits - 1
    /\ f_call' = [f_call EXCEPT ![c].pc = "sleep",
                                ![c].steps = Append(@, "acquire")]
    /\ UNCHANGED <<f_max, f_client, f_open, f_made, f_calls, f_overlap>>
    /\ UNCHANGED notFetch

\* trio.sleep(self.delay) is over: _get_http_client returns the client or
\* creates one when self.client is None, and the request is sent.
FetchSend(c) ==
    /\ f_call[c].pc = "sleep"
    /\ IF f_client = 0
       THEN /\ f_made' = f_made + 1
            /\ f_client' = f_made + 1
            /\ f_open' = f_open \cup {f_made + 1}
       ELSE UNCHANGED <<f_made, f_client, f_open>>
    /\ f_call' = [f_call EXCEPT ![c].pc = "get",
                                ![c].seen = f_client',
                                ![c].steps = @ \o <<"sleep", "send">>]
    /\ UNCHANGED <<f_max, f_permits, f_calls, f_overlap>>
    /\ UNCHANGED notFetch

\* client.get answers or raises (a client that was closed raises
\* RuntimeError): fetch_url returns and the permit is given back.
FetchAnswer(c) ==
    /\ f_call[c].pc = "get"
    /\ \E outcome \in FetchOutcomes \cup
                      (IF f_call[c].seen \in f_open THEN {}
                       ELSE {[kind |-> "exception", exc |-> "RuntimeError"]}) :
          f_call' = [f_call EXCEPT ![c].pc = "done",
                                   ![c].fetched = FetchUrl(outcome),
                                   ![c].steps = @ \o <<"answer", "release">>]
    /\ f_permits' = f_permits + 1
    /\ UNCHANGED <<f_max, f_client, f_open, f_made, f_calls, f_overlap>>
    /\ UNCHANGED notFetch

\* Mutant: a cancelled call leaves the block without giving its permit back.
FetchCancelKeepsPermit(c) ==
    /\ f_call[c].pc \in {"acquire", "sleep", "get"}
    /\ f_call' = [f_call EXCEPT ![c].pc = "cancelled",
                                ![c].steps = Append(@, "cancel")]
    /\ UNCHANGED <<f_max, f_permits, f_client, f_open, f_made, f_calls, f_overlap>>
    /\ UNCHANGED notFetch

\* The task is cancelled where it is suspended: trio.Cancelled is no
\* Exception, no handler of fetch_url catches it, and `async with` gives
\* the permit back when it was taken.
FetchCancel(c) ==
    /\ f_call[c].pc \in {"acquire", "sleep", "get"}
    /\ IF f_call[c].pc = "acquire"
       THEN /\ f_call' = [f_call EXCEPT ![c].pc = "cancelled",
                                        ![c].steps = Append(@, "cancel")]
            /\ UNCHANGED f_permits
       ELSE /\ f_call' = [f_call EXCEPT ![c].pc = "cancelled",
                                        ![c].steps = @ \o <<"cancel", "release">>]
            /\ f_permits' = f_permits + 1
    /\ UNCHANGED <<f_max, f_client, f_open, f_made, f_calls, f_overlap>>
    /\ UNCHANGED notFetch

NextFetch ==
    \/ \E c \in 1..MaxCallers : CallFetch(c)
    \/ \E c \in 1..MaxCallers : CallClose(c)
    \/ \E c \in 1..MaxCallers : CloseEnd(c)
    \/ \E c \in 1..MaxCallers : FetchAcquire(c)
    \/ \E c \in 1..MaxCallers : FetchSend(c)
    \/ \E c \in 1..MaxCallers : FetchAnswer(c)
    \/ \E c \in 1..MaxCallers : FetchCancel(c)

SpecFetch == FetchInit /\ [][NextFetch]_vars

(***************************************************************************)
(* Properties of the merge (SpecMerge).                                    *)
(***************************************************************************)
\* C1 (as stated): after the merge of a record r with a partial record,
\* every field of r (the seven domain fields, source_system and
\* last_updated_at) whose value is non-null has the same value in the
\* merged record.
C1_FillOnlyIfAbsent ==
    (m_pc = "returned" /\ m_lookup.kind = "data") =>
        \A f \in Fields :
            (f \in DOMAIN m_existing /\ ~IsNull(m_existing[f])) =>
                /\ f \in DOMAIN m_result.value
                /\ m_result.value[f] = m_existing[f]

\* C2 (as stated): for every canonical field whose value in the original
\* record is null (None or NaN), the merged value is the partial record's
\* value when the partial record has one, and the original value when it
\* has none.
C2_FillWhenAbsent ==
    (m_pc = "returned" /\ m_lookup.kind = "data") =>
        \A f \in DomainFields :
            IsNull(m_existing[f]) =>
                m_result.value[f] =
                    IF f \in DOMAIN m_lookup.data THEN m_lookup.data[f] ELSE m_existing[f]

(***************************************************************************)
(* Properties of enrich_companies_async (Spec).                            *)
(***************************************************************************)
\* C3 (as stated): a record whose fetch returned null, or whose lookup or
\* extraction raised, is put into the batch result as the unmodified input
\* record: same keys, same value in every field.
C3_FailureSubstitution ==
    \A e \in Elems(results) \cup Elems(batch_results) :
        e.how \in {"fetch_null", "lookup_raised"} => e.rec = companies[e.idx]

LookupRaised(j) ==
    /\ task[j].pc \in {"done", "raised", "cancelled"}
    /\ Truthy(CompanyName(companies[j]))
    /\ \/ Quote(CompanyName(companies[j])).kind = "raise"
       \/ /\ task[j].fetched.kind # "none"
          /\ ScrapeWikipedia(task[j].fetched).kind = "raise"

C6_ConcurrencyBound == Cardinality(HoldingPermit) <= max_concurrent

\* C6 witness: a gate smaller than the batch is full while a task of the
\* same batch waits for a permit.
C6_Witness ==
    /\ max_concurrent < BatchSize
    /\ Cardinality(HoldingPermit) = max_concurrent
    /\ \E j \in Indices : task[j].pc = "acquire"

C8_FetchNeverRaises ==
    \A j \in Indices :
        task[j].fetched.kind # "none" =>
            /\ task[j].fetched.kind = "return"
            /\ task[j].fetched.value =
                  IF task[j].outcome.kind = "response" /\ task[j].outcome.status = 200
                  THEN task[j].outcome.text
                  ELSE PyNone

\* C8 witness: one call ended on a non-200 response and one on a timeout,
\* both with None, and one on a 200 response with its text.
C8_Witness ==
    \E a, b, c \in Indices :
        /\ task[a].outcome.kind = "exception" /\ task[a].fetched.value = PyNone
        /\ task[b].outcome.kind = "response" /\ task[b].outcome.status = 404
        /\ task[b].fetched.value = PyNone
        /\ task[c].outcome.kind = "response" /\ task[c].outcome.status = 200
        /\ task[c].fetched.value = task[c].outcome.text

(***************************************************************************)
(* Properties of the entry points (SpecEntry).                             *)
(***************************************************************************)
\* C9: once an entry point has returned or raised, its scraper holds no
\* open client.
C9_GuaranteedRelease == e_pc = "exited" => client # "open"

\* C9 witness: an entry point whose enrichment created a client has left
\* by an exception, the client closed.
C9_Witness ==
    /\ e_pc = "exited"
    /\ e_how = "raised"
    /\ e_fetches > 0
    /\ client = "none"

(***************************************************************************)
(* Properties of the fallback resolvers (SpecResolve).                     *)
(***************************************************************************)
\* A pass whose download returned, which found a CSV or parquet file in the
\* working directory and read every file it chose without an error.
Succeeds(seen) == ~seen.raised /\ seen.tabular /\ ~seen.unreadable

\* C10 as stated: candidates are attempted in list order, the call returns at
\* the first candidate after whose download a tabular file is present, and no
\* candidate after that one is attempted.
C10_FirstYieldWins ==
    /\ \A n \in DOMAIN r_log : r_log[n].dataset = DatasetOptions(r_func)[n]
    /\ \A n \in DOMAIN r_log :
          r_log[n].tabular => n = Len(r_log) /\ r_pc = "returned"
    /\ r_pc = "returned" => r_log[Len(r_log)].tabular

\* C10 amended: candidates are attempted in list order; the call returns at
\* the first candidate whose pass succeeds (the download returned, a CSV or
\* parquet file is then present and every file read is readable), with the
\* table read in that pass, and no candidate after it is attempted; every
\* earlier candidate failed, and when there is one the table holds rows of
\* the winning candidate's files only ([A, B, C], A fails, B succeeds: B's
\* data, C never attempted).
C10_FirstSuccessWins ==
    /\ \A n \in DOMAIN r_log : r_log[n].dataset = DatasetOptions(r_func)[n]
    /\ \A n \in DOMAIN r_log :
          Succeeds(r_log[n]) <=> n = Len(r_log) /\ r_pc = "returned"
    /\ r_pc = "returned" =>
          /\ r_log # <<>>
          /\ r_table # {}
          /\ r_table \in {Glob(workdir, "csv"), Glob(workdir, "parquet")}
          /\ Len(r_log) > 1 =>
                \A f \in r_table : f.src = r_log[Len(r_log)].dataset

\* C10 witness: the first candidate failed with an unreadable CSV file, the
\* second succeeded and its data was returned; the third was not attempted.
C10_Witness ==
    /\ r_pc = "returned"
    /\ Len(r_log) = 2
    /\ Len(DatasetOptions(r_func)) > 2
    /\ r_log[1].tabular /\ r_log[1].unreadable /\ ~r_log[1].raised
    /\ r_table # {}
    /\ \A f \in r_table : f.src = DatasetOptions(r_func)[2]

\* C11 as stated: the call raises only when every candidate of the list has
\* been attempted and has failed; while a candidate is untried no exception
\* leaves the call, whatever failed (download, authentication, no CSV or
\* parquet file, unreadable file).
C11_ExhaustionOnly ==
    r_pc = "raised" =>
        /\ Len(r_log) = Len(DatasetOptions(r_func))
        /\ \A n \in DOMAIN r_log : ~Succeeds(r_log[n])
        /\ r_exc = "Failed to download any dataset"

\* C12: when the loop is about to attempt a candidate after the first, the
\* working directory exists and is empty: it holds no file written during
\* the pass of an earlier candidate (and none from before the call).
C12_CleanupOnFailure ==
    (r_pc = "loop" /\ r_idx > 1) =>
        /\ dir_exists
        /\ workdir = {}
        /\ \A f \in workdir : \A n \in 1..(r_idx - 1) :
              f.src # DatasetOptions(r_func)[n]

\* C12 witness: the third candidate is about to be attempted after a first
\* pass whose download raised with a tabular file written and a second pass
\* whose download returned without a tabular file.
C12_Witness ==
    /\ r_pc = "loop"
    /\ r_idx = 3
    /\ r_idx <= Len(DatasetOptions(r_func))
    /\ r_log[1].raised /\ r_log[1].tabular
    /\ ~r_log[2].raised /\ ~r_log[2].tabular
    /\ dir_exists /\ workdir = {}

(***************************************************************************)
(* Properties of the normalizers (SpecNorm).                               *)
(***************************************************************************)
\* C13 as stated: for every input table and each normalizer, the call
\* returns; every output record has the seven canonical fields as keys,
\* source_system equal to the identifier given and a populated
\* last_updated_at; and there is one output record per input row.
C13_NormalizationTotality ==
    n_pc # "call" =>
        LET NormRecords == ToDictRecords(n_out.df)
        IN
        /\ n_pc = "returned"
        /\ n_out.df.nrows = n_df.nrows
        /\ Len(NormRecords) = n_df.nrows
        /\ \A r \in DOMAIN NormRecords :
              /\ Elems(required_columns) \subseteq DOMAIN NormRecords[r]
              /\ "source_system" \in DOMAIN NormRecords[r]
              /\ NormRecords[r]["source_system"] = n_source
              /\ "last_updated_at" \in DOMAIN NormRecords[r]
              /\ Truthy(NormRecords[r]["last_updated_at"])
              /\ ~IsNull(NormRecords[r]["last_updated_at"])

\* The columns of the returned frame that bear the name of a canonical field.
CanonicalColumns ==
    {k \in DOMAIN n_out.df.cols : n_out.df.cols[k].label.text \in Elems(required_columns)}

\* The cell of row r in the source column an output column was renamed from.
SourceValue(col, r) ==
    LET k == CHOOSE j \in DOMAIN n_df.cols : n_df.cols[j].label = col.origin
    IN  n_df.cols[k].cells[r]

\* C14 as stated: in every record a normalizer returns, a canonical field
\* with no mapped source column, or whose source value is missing (None or
\* NaN), is null, for each of the seven fields.
C14_AbsentMeansNull ==
    n_pc = "returned" =>
        \A k \in CanonicalColumns : \A r \in 1..n_out.df.nrows :
            (\/ n_out.df.cols[k].origin = Label("<added>")
             \/ IsNull(SourceValue(n_out.df.cols[k], r)))
                => IsNull(n_out.df.cols[k].cells[r])

\* C15 as stated: in the frame a normalizer returns, every source column
\* whose lowered, stripped name is a named variant is the origin of a column
\* of its canonical field, and no column comes from a source column that is
\* no known variant or bears another name than the nine output names.
C15_ColumnMapping ==
    LET \* the variants the claim names, with their canonical fields
        NamedVariants ==
            [name |-> "company_name", company |-> "company_name",
                     company_name |-> "company_name",
                     website |-> "domain", url |-> "domain", domain |-> "domain",
                     industry |-> "industry", sector |-> "industry",
                     country |-> "country", location |-> "country",
                     employees |-> "employee_count", num_employees |-> "employee_count",
                     revenue |-> "revenue", annual_revenue |-> "revenue",
                     founded |-> "founded_year", year_founded |-> "founded_year"]
    IN
    n_pc = "returned" =>
        /\ \A j \in DOMAIN n_df.cols :
              n_df.cols[j].label.text \in DOMAIN NamedVariants =>
                 \E k \in DOMAIN n_out.df.cols :
                    /\ n_out.df.cols[k].origin = n_df.cols[j].label
                    /\ n_out.df.cols[k].label =
                          Label(NamedVariants[n_df.cols[j].label.text])
        /\ \A k \in DOMAIN n_out.df.cols :
              /\ n_out.df.cols[k].label.text \in Elems(final_columns)
              /\ n_out.df.cols[k].label.style = "plain"
              /\ n_out.df.cols[k].origin # Label("<added>") =>
                    n_out.df.cols[k].origin.text \in DOMAIN column_mapping

\* C19 as stated: in no normalizer does the numeric coercion raise, and in
\* the frame a normalizer returns every employee_count and revenue cell that
\* comes from a source column is the source value when that is a number and
\* null when it is not.
C19_ParseOrNull ==
    /\ n_pc = "raised" => n_out.exc # "TypeError"
    /\ n_pc = "returned" =>
          \A k \in CanonicalColumns : \A r \in 1..n_out.df.nrows :
              (/\ n_out.df.cols[k].label.text \in {"employee_count", "revenue"}
               /\ n_out.df.cols[k].origin # Label("<added>"))
                 => IF SourceValue(n_out.df.cols[k], r) \in Numbers
                    THEN n_out.df.cols[k].cells[r] = SourceValue(n_out.df.cols[k], r)
                    ELSE IsNull(n_out.df.cols[k].cells[r])

\* C24: in the frame a normalizer returns, every domain cell that comes
\* from a non-null source value is the lower-cased host of that value:
\* without a leading http:// or https://, without a leading www. and
\* without what follows the first "/"; this for each of the normalizers.
C24_DomainIsHost ==
    LET \* the host of a source domain value of the model
        Host(v) == IF v = "' HTTPS://WWW.Acme.com/about '" THEN "'acme.com'" ELSE v
    IN
    n_pc = "returned" =>
        \A k \in CanonicalColumns : \A r \in 1..n_out.df.nrows :
            (/\ n_out.df.cols[k].label.text = "domain"
             /\ n_out.df.cols[k].origin # Label("<added>")
             /\ ~IsNull(SourceValue(n_out.df.cols[k], r)))
               => n_out.df.cols[k].cells[r] = Host(SourceValue(n_out.df.cols[k], r))

(***************************************************************************)
(* Properties of the partitioning functions (SpecPart).                    *)
(***************************************************************************)
\* C16 as stated: with enrichment enabled, a record is sent to enrichment
\* exactly when one of domain, industry, employee_count, founded_year is
\* null; a record with none of the four null causes no fetch and is in the
\* final result with every field unchanged; and the final result is the
\* complete part followed by the batch outputs, one record per input record.
C16_PartitionAndFrame ==
    LET \* at least one of domain, industry, employee_count, founded_year is null
        HasNullPriorityField(rec) == \E f \in PriorityFields : IsNull(rec[f])
    IN
    (p_flag /\ p_pc = "returned") =>
        /\ \A k \in DOMAIN p_df :
              k \in Elems(p_sent) <=> HasNullPriorityField(p_df[k])
        /\ \A k \in DOMAIN p_df :
              ~HasNullPriorityField(p_df[k]) =>
                 /\ k \notin p_fetched
                 /\ \E e \in Elems(p_out) : e.idx = k /\ e.rec = p_df[k]
        /\ Len(p_out) = Len(p_df)
        /\ p_out = Untouched(p_df, p_rest)
                      \o [k \in DOMAIN p_list |->
                            [part |-> "enriched", idx |-> p_list[k].idx,
                             rec |-> p_list[k].rec]]

(***************************************************************************)
(* The merge never loses a value (SpecMerge).                              *)
(***************************************************************************)
\* C17: for every record and every partial record, a partial carrying an
\* explicit None included, no field that is non-null in the record is null
\* or missing in the record scrape_company_info returns.
C17_NoRegressionToNull ==
    (m_pc = "returned" /\ m_result.kind = "return") =>
        \A f \in DOMAIN m_existing :
            ~IsNull(m_existing[f]) =>
                /\ f \in DOMAIN m_result.value
                /\ ~IsNull(m_result.value[f])

\* A record with a founded_year was merged with a partial whose
\* founded_year is an explicit None, and kept its year.
C17_Witness ==
    /\ m_pc = "returned"
    /\ m_result.kind = "return"
    /\ m_lookup.kind = "data"
    /\ "founded_year" \in DOMAIN m_lookup.data
    /\ m_lookup.data["founded_year"] = PyNone
    /\ m_existing["founded_year"] = "1998"
    /\ m_result.value["founded_year"] = "1998"

(***************************************************************************)
(* Propagation of failures out of ingest_all (SpecIngest).                 *)
(***************************************************************************)
\* C18: the only failure that leaves ingest_all is the unavailability of a
\* source, and it does leave it: when ingest_all has been left, it raised
\* exactly when a download found no dataset, and every other failure was
\* recovered without an exception reaching the caller.
C18_PropagationPolicy ==
    g_pc = "exited" =>
        /\ g_how = "raised" <=>
              \E k \in DOMAIN g_log : g_log[k].cause = "source_unavailable"
        /\ \A k \in DOMAIN g_log :
              g_log[k].cause # "source_unavailable" => g_how = "returned"

(***************************************************************************)
(* Properties of the extractor (SpecParse).                                *)
(***************************************************************************)
\* C20: for every page, parse_wikipedia_infobox returns a partial record
\* and raises no exception; a page without an info panel gives the empty
\* partial record; and a row whose value cannot be parsed only leaves its
\* field out, the fields extracted from the other rows being kept.
C20_ExtractorNeverRaises ==
    LET \* the result, had the panel ended before row k
        ExtractedBefore(soup, k) == ParseRows(Slice(soup.rows, 1, k - 1), <<>>)
    IN
    x_pc # "call" =>
        /\ x_pc = "returned"
        /\ x_out.kind = "data"
        /\ ~x_soup.panel => x_out.data = <<>>
        /\ \A k \in DOMAIN x_soup.rows :
              ExtractedBefore(x_soup, k).kind = "data" =>
                 \A f \in DOMAIN ExtractedBefore(x_soup, k).data :
                     f \in DOMAIN x_out.data

\* C21: in every partial record the extractor returns, employee_count is
\* null or a non-negative integer, revenue is null or non-negative, and
\* founded_year is null or an integer between 1800 and 2030.
C21_ValueRanges ==
    LET digits == {"0", "1", "2", "3", "4", "5", "6", "7", "8", "9"}
        \* the values IntOf gives for the rows of the model
        Integers == {ToString(n) : n \in 0..9999}
        Plausible == {ToString(n) : n \in 1800..2030}
    IN
    (x_pc = "returned" /\ x_out.kind = "data") =>
        /\ "founded_year" \in DOMAIN x_out.data =>
              \/ IsNull(x_out.data.founded_year)
              \/ x_out.data.founded_year \in Plausible
        /\ "employee_count" \in DOMAIN x_out.data =>
              \/ IsNull(x_out.data.employee_count)
              \/ x_out.data.employee_count \in Integers

\* C25: in enrich_with_web_scraper, for every order in which the tasks of a
\* batch complete, a founded_year written back into a row of the table is
\* the one enrich_companies_async returned for a record of the same
\* company_name.
C25_WriteBackMatches ==
    (p_func = "enrich_with_web_scraper" /\ p_pc = "returned") =>
        \A k \in DOMAIN p_out :
            (/\ p_out[k].part = "enriched"
             /\ p_out[k].rec["founded_year"] # p_df[p_out[k].idx]["founded_year"])
               => \E j \in DOMAIN p_list :
                     /\ p_list[j].rec["company_name"] = p_out[k].rec["company_name"]
                     /\ p_list[j].rec["founded_year"] = p_out[k].rec["founded_year"]

(***************************************************************************)
(* Properties of concurrent fetch_url and close calls (SpecFetch).         *)
(***************************************************************************)
\* C22: every fetch_url call first takes one permit, then waits the delay,
\* then sends the request, and holds the permit until the request has
\* finished; the permit is given back on every way out (an answer of any
\* status, an exception, a cancellation), so that the free permits are
\* max_concurrent less the calls between acquire and exit, and are
\* max_concurrent when no fetch is running.
C22_FetchStepOrder ==
    LET Paths ==
            {<<>>, <<"cancel">>, <<"acquire">>, <<"acquire", "cancel", "release">>,
             <<"acquire", "sleep", "send">>,
             <<"acquire", "sleep", "send", "cancel", "release">>,
             <<"acquire", "sleep", "send", "answer", "release">>}
        Fetches == {c \in DOMAIN f_call : f_call[c].op = "fetch_url"}
        Holding == {c \in Fetches : /\ "acquire" \in Elems(f_call[c].steps)
                                    /\ "release" \notin Elems(f_call[c].steps)}
    IN  /\ \A c \in Fetches : f_call[c].steps \in Paths
        /\ \A c \in Fetches : c \in Holding <=> f_call[c].pc \in {"sleep", "get"}
        /\ f_permits = f_max - Cardinality(Holding)
        /\ (\A c \in Fetches : f_call[c].pc \in {"done", "cancelled"}) => f_permits = f_max

\* C22 witness: no fetch is running and every permit is free after one
\* call was cancelled while it held a permit, one returned None and one
\* returned the text of a 200 response.
C22_Witness ==
    /\ f_permits = f_max
    /\ \E a, b, c \in DOMAIN f_call :
          /\ f_call[a].pc = "cancelled" /\ "release" \in Elems(f_call[a].steps)
          /\ f_call[b].pc = "done" /\ f_call[b].op = "fetch_url"
          /\ f_call[b].fetched.value = PyNone
          /\ f_call[c].pc = "done" /\ f_call[c].op = "fetch_url"
          /\ f_call[c].fetched.value # PyNone

\* C23: for a panel with one revenue row, the revenue of the partial
\* record is the first numeric run of the row's text, multiplied by 1e9
\* when the text contains "billion" or "bn", by 1e6 when it contains
\* "million" or "mn", and taken as it is in every other case; a text
\* without a numeric run leaves revenue out of the partial record.
C23_RevenueExtraction ==
    LET digits == {"0", "1", "2", "3", "4", "5", "6", "7", "8", "9"}
        run(td) == SelectSeq(FirstRun(td, digits \cup {".", ","}), LAMBDA c : c # ",")
        scale(td) ==
            IF \/ Contains(LowerText(td), <<"b", "i", "l", "l", "i", "o", "n">>)
               \/ Contains(LowerText(td), <<"b", "n">>)
            THEN "e9"
            ELSE IF \/ Contains(LowerText(td), <<"m", "i", "l", "l", "i", "o", "n">>)
                    \/ Contains(LowerText(td), <<"m", "n">>)
            THEN "e6"
            ELSE ""
        revenue_rows ==
            {k \in DOMAIN x_soup.rows :
                Contains(LowerText(x_soup.rows[k].th), <<"r", "e", "v", "e", "n", "u", "e">>)}
        td == x_soup.rows[CHOOSE k \in revenue_rows : TRUE].td
    IN
    (x_pc = "returned" /\ x_out.kind = "data" /\ Cardinality(revenue_rows) = 1) =>
        IF run(td) = <<>> \/ Float(run(td), scale(td)).kind = "raise"
        THEN "revenue" \notin DOMAIN x_out.data
        ELSE /\ "revenue" \in DOMAIN x_out.data
             /\ x_out.data.revenue = Float(run(td), scale(td)).value

\* C30 (as stated): for every interleaving of fetch_url and close calls on
\* one WebScraper, at most one client instance it created is open at any
\* time, and an instance that is open is the one self.client holds, which
\* the next close() call closes.
C30_ClientLifecycle ==
    /\ Cardinality(f_open) <= 1
    /\ f_open \subseteq {f_client}

\* C30 (amended): the same for every interleaving of concurrent fetch_url
\* calls with close() calls of which no two overlap; a close() call that
\* has ended saw its client closed, and one that found no client ended at
\* once.
C30_ClientLifecycleOneCloseAtATime ==
    ~f_overlap =>
        /\ Cardinality(f_open) <= 1
        /\ f_open \subseteq {f_client}
        /\ \A c \in DOMAIN f_call :
              f_call[c].op = "close" =>
                 /\ f_call[c].seen \notin f_open
                 /\ f_call[c].seen = 0 => f_call[c].pc = "done"

\* C30 witness: no two close() calls overlapped; a close() call closed the
\* client a fetch that had ended was made with, another found no client,
\* and a fetch has then created a second client, the only one open.
C30_Witness ==
    /\ ~f_overlap
    /\ f_made = 2
    /\ f_open = {2}
    /\ \E a, b, c \in DOMAIN f_call :
          /\ f_call[a].op = "close" /\ f_call[a].pc = "done" /\ f_call[a].seen = 1
          /\ f_call[b].op = "close" /\ f_call[b].pc = "done" /\ f_call[b].seen = 0
          /\ f_call[c].op = "fetch_url" /\ f_call[c].seen = 2

(***************************************************************************)
(* The partition step against the merge step (SpecMerge).                  *)
(***************************************************************************)
\* C26: the partition step and the merge step agree on what is absent: for
\* each field the partition looks at and a partial record that has a value
\* for it, scrape_company_info fills the field exactly when the partition
\* step counts the record's value as missing (null or NaN, '', 'None').
C26_AbsenceAgrees ==
    (m_pc = "returned" /\ m_lookup.kind = "data") =>
        \A f \in PriorityFields :
            (f \in DOMAIN m_lookup.data /\ Truthy(m_lookup.data[f])) =>
                (Missing(m_existing[f]) <=> m_result.value[f] = m_lookup.data[f])

(***************************************************************************)
(* Properties of the ingest_all functions and of main (SpecIngest).        *)
(***************************************************************************)
\* C27: a Fortune1000Ingestion constructed with enrichment enabled whose
\* download and normalization succeeded does not leave ingest_all with an
\* exception: the enrichment step is run and the call returns its table.
C27_EnabledEnrichmentRuns ==
    (/\ g_entry = "Fortune1000Ingestion.ingest_all"
     /\ g_flag
     /\ g_pc = "exited"
     /\ Len(g_results) = 1) =>
        /\ g_how = "returned"
        /\ g_exc = "none"
        /\ g_log = <<>>

\* C28: main saves a global-companies table exactly when the second source
\* of KaggleIngestion.ingest_all, the global chain, gave a table, whatever
\* became of the first source, the USA chain; and the table it saves is
\* the one of the global chain.
C28_IndependentSources ==
    LET global_ok == \A k \in DOMAIN g_log : g_log[k].source # 2
        FromGlobal(df) ==
            \E c \in DOMAIN df.cols :
                /\ df.cols[c].label = Label("source_system")
                /\ \A r \in 1..df.nrows : df.cols[c].cells[r] = Sources(g_entry)[2].id
    IN
    (g_entry = "KaggleIngestion.ingest_all" /\ g_saved.kind # "pending") =>
        /\ g_saved.kind = "saved" <=> global_ok
        /\ g_saved.kind = "saved" => FromGlobal(g_saved.df)

(***************************************************************************)
(* Where the rows of a resolved table come from (SpecResolve).             *)
(***************************************************************************)
\* C29: every file read into the table a resolver returns was fetched by
\* the candidate that succeeded in this call, none was in the working
\* directory before the call; and the candidate that succeeded placed a
\* tabular file.
C29_WinnerOnly ==
    r_pc = "returned" =>
        /\ \A f \in r_table : f.src = DatasetOptions(r_func)[r_idx]
        /\ \E f \in workdir : f.src = DatasetOptions(r_func)[r_idx]

====
